---- MODULE Spec2Model ----
(***************************************************************************)
(* Model of the OTP authentication and identity reconciliation actions of  *)
(* src/lib/actions/user.actions.ts (createAccount, signInUser,             *)
(* verifySecret, getCurrentUser, signOutUser) against an Account Directory *)
(* (Appwrite account API), a Profile Store (users collection) and a        *)
(* Session Carrier (the "appwrite-session" cookie).                        *)
(*                                                                         *)
(* Every `await` of an external call is one atomic step of the invoking    *)
(* request, so concurrent requests interleave exactly at those points.     *)
(* Strings that the code transforms (emails, names) are tuples of          *)
(* characters; error messages are tuples of words.                         *)
(*                                                                         *)
(* The file actions uploadFile and deleteFile of the file actions module   *)
(* act on a storage bucket and on the files collection.                    *)
(* getFiles, renameFile, updateFileUsers and getTotalSpaceUsed query and   *)
(* update the files collection for the current user.                      *)
(***************************************************************************)
EXTENDS Integers, Sequences, FiniteSets, TLC

\* ------------------------------------------------------------------ bounds

\* Number of directory sessions that may be created in one behaviour.
MaxSessions == 2

\* Number of identifiers ID.unique() may generate for bucket files and file
\* documents in one behaviour (an upload takes up to two).
MaxUnique == 4

\* Concurrent request handlers.
Procs == {"p1", "p2"}

\* Account identifiers the directory (or ID.unique()) can hand out, in the
\* order in which they are generated.
IdOrder == <<"I1", "I2">>

Ids == {IdOrder[i] : i \in 1..Len(IdOrder)}

\* The empty / missing accountId (falsy in the code's `&&` and `||` tests).
NoId == ""

\* ----------------------------------------------------------------- strings

\* The absent optional string argument (undefined or "", both falsy).
Absent == <<>>

Truthy(s) == s # Absent

LowerChar(c) == IF c = "A" THEN "a" ELSE IF c = "B" THEN "b" ELSE IF c = "N" THEN "n" ELSE c

toLowerCase(s) == [i \in 1..Len(s) |-> LowerChar(s[i])]

RECURSIVE trimStart(_)
trimStart(s) == IF s # <<>> /\ Head(s) = " " THEN trimStart(Tail(s)) ELSE s

RECURSIVE trimEnd(_)
trimEnd(s) == IF s # <<>> /\ s[Len(s)] = " " THEN trimEnd(SubSeq(s, 1, Len(s) - 1)) ELSE s

trim(s) == trimEnd(trimStart(s))

\* email.trim().toLowerCase(), the form in which verifySecret stores an email.
NormalizeEmail(email) == toLowerCase(trim(email))

\* Emails a caller may type; <<" ", "A">> needs both trimming and lower-casing.
RawEmails == {<<"a">>, <<" ", "A">>, <<"b">>}

NormEmails == {NormalizeEmail(e) : e \in RawEmails}

\* Full names a caller may type; the padded one exercises trim().
FullNames == {<<"N", " ">>}

Passwords == {"otp", "wrong"}

avatarPlaceholderUrl == "avatarPlaceholderUrl"

\* ------------------------------------------------------------------ errors

\* Message texts, word by word (shortened where the tail is never inspected).
MsgAccountExists == <<"An", "account", "with", "this", "email", "already", "exists">>
MsgSendOtpDefault == <<"Failed", "to", "send", "email", "OTP">>
MsgFailedToSendOtp == <<"Failed", "to", "send", "OTP">>
MsgCreateAccountDefault == <<"Failed", "to", "create", "account">>
MsgSignInDefault == <<"Failed", "to", "sign", "in">>
MsgUserNotFound == <<"User", "not", "found">>
MsgInvalidOtpInner == <<"Invalid", "or", "expired", "OTP", "request", "a", "new", "one">>
MsgInvalidOtp == <<"Invalid", "or", "expired", "OTP", "request", "a", "new", "one", "and", "try", "again">>
MsgOtpExpired == <<"OTP", "has", "expired">>
MsgInvalidOtpDefault == <<"Invalid", "OTP", "try", "again">>
MsgSaveUserPrefix == <<"Failed", "to", "save", "user", "data">>
MsgSaveUserSuffix == <<"ensure", "correct", "attributes">>
MsgUnknownDb == <<"Unknown", "database", "error">>

\* Messages of the external services.
MsgInvalidToken == <<"Invalid", "token", "passed", "in", "the", "request">>
MsgServerError == <<"Server", "Error">>
MsgInvalidParam == <<"Invalid", "userId", "param">>
MsgDuplicate == <<"Document", "already", "exists">>
MsgUserExists == <<"user", "already", "exists">>
MsgUnauthorized == <<"missing", "scope">>

NoCode == 0

\* An error value: the (HTTP) code of an AppwriteException, NoCode for a plain Error.
Err(code, message) == [code |-> code, message |-> message]

NoErr == Err(NoCode, <<"none">>)

\* new Error(message)
NewError(message) == Err(NoCode, message)

ErrInvalidToken == Err(401, MsgInvalidToken)
ErrServer == Err(500, MsgServerError)
ErrInvalidParam == Err(400, MsgInvalidParam)
ErrDuplicate == Err(409, MsgDuplicate)
ErrUserExists == Err(409, MsgUserExists)
ErrNoSession == Err(401, MsgUnauthorized)
ErrEmpty == Err(500, <<>>)
ErrInvalidStructure == Err(400, <<"Invalid", "document", "structure">>)

LowerWord(w) == IF w = "Invalid" THEN "invalid" ELSE IF w = "OTP" THEN "otp" ELSE w

\* message.toLowerCase()
lowerMessage(m) == [i \in 1..Len(m) |-> LowerWord(m[i])]

\* message.includes(words), words a tuple of consecutive words
includes(m, words) ==
    \E i \in 1..Len(m) :
        /\ i + Len(words) - 1 <= Len(m)
        /\ \A j \in 1..Len(words) : m[i + j - 1] = words[j]

\* --------------------------------------------------------------- the state

VARIABLES
    users,       \* Profile Store: the users collection, in creation order
    dirAccount,  \* Account Directory: normalised email -> account id (NoId: no account)
    idOwner,     \* Account Directory: identifier -> the email it was assigned to
    sessions,    \* Account Directory: sessions; the secret of session i is i
    cookie,      \* Session Carrier: value of "appwrite-session" (0: no cookie)
    pc,          \* per request: the await it is about to complete
    loc,         \* per request: arguments and local variables
    calls,       \* per request: external calls issued so far, by operation
    result,      \* per request: how the action completed
    bucket,      \* storage bucket: the set of stored bucket files
    files,       \* files collection: the set of file documents
    unique,      \* number of identifiers ID.unique() has generated for files
    floc         \* per request: arguments and local variables of a file action

vars == <<users, dirAccount, idOwner, sessions, cookie, pc, loc, calls, result,
          bucket, files, unique, floc>>

\* The state of the file actions.
fileVars == <<bucket, files, unique, floc>>

\* The state of the authentication actions.
userVars == <<users, dirAccount, idOwner, sessions, cookie, loc, calls>>

NoCookie == 0

\* The value of `existingUser` when no document was found.
NullDoc == [id |-> 0, fullName |-> <<>>, email |-> <<>>, avatar |-> "", accountId |-> NoId]

Doc(id, fullName, email, avatar, accountId) ==
    [id |-> id, fullName |-> fullName, email |-> email, avatar |-> avatar, accountId |-> accountId]

NoCalls ==
    [createEmailToken |-> 0, createSession |-> 0, get |-> 0, listDocuments |-> 0,
     createDocument |-> 0, updateDocument |-> 0, deleteSession |-> 0,
     cookieSet |-> 0, cookieDelete |-> 0]

\* No external call of the request has failed.
NoCall == "none"

\* `failed` names the external call of the request that failed last,
\* `otpError` is what createEmailToken failed with and `sessionError` what
\* createSession failed with.
Blank ==
    [op |-> "none", accountId |-> NoId, fullName |-> Absent, email |-> Absent,
     hint |-> NoId, secret |-> 0, actual |-> NoId, existing |-> NullDoc,
     dbError |-> NoErr, updateFailed |-> FALSE, rejected |-> FALSE, envFault |-> FALSE,
     omitted |-> FALSE, hadProfile |-> FALSE,
     failed |-> NoCall, otpError |-> NoErr, sessionError |-> NoErr]

\* How an action completes: it returns a value, throws an error or redirects.
NoValue == [none |-> TRUE]

NoResult == [kind |-> "none", value |-> NoValue, error |-> NoErr]

Return(value) == [kind |-> "return", value |-> value, error |-> NoErr]

Throw(error) == [kind |-> "throw", value |-> NoValue, error |-> error]

Redirect(path) == [kind |-> "redirect", value |-> [path |-> path], error |-> NoErr]

Bump(p, op) == [calls EXCEPT ![p][op] = @ + 1]

\* ------------------------------------------------- files: data (file actions)

\* A file name is the sequence of its parts between dots: "r.PDF" is <<"r", "PDF">>.
toLowerCaseWord(w) ==
    IF w = "PDF" THEN "pdf" ELSE IF w = "PNG" THEN "png" ELSE w

documentExtensions == {"pdf", "doc", "txt"}

imageExtensions == {"jpg", "png"}

videoExtensions == {"mp4"}

audioExtensions == {"mp3"}

\* getFileType(fileName): fileName.split('.').pop()?.toLowerCase() and its class.
getFileType(fileName) ==
    LET extension == IF Len(fileName) = 0 THEN "" ELSE toLowerCaseWord(fileName[Len(fileName)])
    IN  IF extension = "" THEN [type |-> "other", extension |-> ""]
        ELSE IF extension \in documentExtensions THEN [type |-> "document", extension |-> extension]
        ELSE IF extension \in imageExtensions THEN [type |-> "image", extension |-> extension]
        ELSE IF extension \in videoExtensions THEN [type |-> "video", extension |-> extension]
        ELSE IF extension \in audioExtensions THEN [type |-> "audio", extension |-> extension]
        ELSE [type |-> "other", extension |-> extension]

\* constructFileUrl(bucketFileId): the view URL embeds the bucket file id.
constructFileUrl(bucketFileId) == <<"files", bucketFileId, "view">>

\* The files a caller uploads: name and size in bytes.
UploadFiles ==
    {[name |-> <<"r", "PDF">>, size |-> 1], [name |-> <<"notes">>, size |-> 2]}

\* The profile id and account id the caller passes as owner of an upload.
OwnerIds == {1}

OwnerAccountIds == {"I1"}

\* Identifiers ID.unique() can generate for bucket files and file documents.
FileIds == 1..MaxUnique

\* The identifiers ID.unique() has generated for bucket files and file
\* documents: the ones a caller of deleteFile can name. An identifier that
\* was never generated is answered like one whose file or document is gone.
GeneratedIds == 1..unique

\* No bucket file / no identifier.
NoFileId == 0

NoBucketFile == [id |-> NoFileId, name |-> <<>>, sizeOriginal |-> 0]

\* What the storage and the database answer when a call of a file action fails.
ErrStorageUnavailable == Err(503, <<"Storage", "unavailable">>)

ErrFileNotFound == Err(404, <<"The", "requested", "file", "could", "not", "be", "found">>)

ErrDocumentNotFound == Err(404, <<"Document", "with", "the", "requested", "ID", "could", "not", "be", "found">>)

\* The ids of the files stored in the bucket.
BucketIds == {f.id : f \in bucket}

\* The ids of the documents of the files collection.
DocumentIds == {d.id : d \in files}

\* `before` is the bucket and the files collection when uploadFile was called,
\* `documentError` what createDocument failed with and `compensated` whether
\* the compensating storage.deleteFile succeeded; `currentUser` is what
\* getCurrentUser resolved to and `queries` the queries of the listing.
FileBlank ==
    [op |-> "none", file |-> [name |-> <<>>, size |-> 0], ownerId |-> 0, accountId |-> NoId,
     bucketFile |-> NoBucketFile, fileId |-> NoFileId, bucketFileId |-> NoFileId,
     before |-> [bucket |-> {}, files |-> {}],
     documentError |-> NoErr, compensated |-> FALSE, deletedFile |-> FALSE,
     types |-> <<>>, searchText |-> <<>>, sort |-> <<>>, limit |-> 0,
     currentUser |-> NullDoc, queries |-> <<>>,
     name |-> <<>>, extension |-> "", emails |-> <<>>]

\* ------------------------------------------------------------ Profile Store

\* databases.listDocuments(users, [Query.equal(field, value)]): exact match.
listDocuments(field, value) ==
    SelectSeq(users, LAMBDA d : IF field = "email" THEN d.email = value ELSE d.accountId = value)

\* A variant of FirstOrNull that needs more than one document.
FirstOrNullOffByOne(docs) == IF Len(docs) > 1 THEN docs[1] ELSE NullDoc

\* result.total > 0 ? result.documents[0] : null
FirstOrNull(docs) == IF Len(docs) > 0 THEN docs[1] ELSE NullDoc

\* The users collection's unique index on email rejects a second document.
UniqueEmailViolated(email) == \E i \in 1..Len(users) : users[i].email = email

\* Whether a profile is stored for the email, compared trimmed and lower-cased
\* (recorded per request for the statements about "an email with a profile").
HasProfile(email) ==
    \E i \in 1..Len(users) : NormalizeEmail(users[i].email) = NormalizeEmail(email)

\* A variant of updateDocument that replaces the whole document by the data passed.
updateDocumentReplaces(id, accountId) ==
    [users EXCEPT ![id] = Doc(id, <<>>, <<>>, "", accountId)]

\* databases.updateDocument(users, id, {accountId})
updateDocument(id, accountId) == [users EXCEPT ![id].accountId = accountId]

\* -------------------------------------------------------- Account Directory

\* The identifier belongs to no email yet.
NoEmail == <<>>

\* Identifiers the directory has assigned; none is ever assigned twice.
UsedIds == {id \in Ids : idOwner[id] # NoEmail}

Response(ok, userId, error) == [ok |-> ok, userId |-> userId, error |-> error]

\* account.createEmailToken(userId, email): the directory keeps one account per
\* email; an existing account's identifier wins over the caller's hint.
TokenUserId(userId, email) ==
    IF dirAccount[NormalizeEmail(email)] # NoId THEN dirAccount[NormalizeEmail(email)] ELSE userId

\* The hint names another email's account: the directory refuses to create it.
TokenConflict(userId, email) ==
    dirAccount[NormalizeEmail(email)] = NoId /\ userId \in UsedIds

\* What createEmailToken may answer: the challenge (whose response may lack
\* userId), a conflict, or a failure of the call.
TokenResponses(userId, email) ==
    (IF TokenConflict(userId, email)
        THEN {Response(FALSE, NoId, ErrUserExists)}
        ELSE {Response(TRUE, TokenUserId(userId, email), NoErr), Response(TRUE, NoId, NoErr)})
    \cup {Response(FALSE, NoId, ErrServer), Response(FALSE, NoId, ErrEmpty)}

\* The directory state after createEmailToken answered `r`.
IssueToken(r, userId, email) ==
    IF r.ok
    THEN /\ dirAccount' = [dirAccount EXCEPT ![NormalizeEmail(email)] = TokenUserId(userId, email)]
         /\ idOwner' = [idOwner EXCEPT ![TokenUserId(userId, email)] = NormalizeEmail(email)]
    ELSE UNCHANGED <<dirAccount, idOwner>>

\* ID.unique(): the next identifier no account uses (identifiers are
\* interchangeable); any identifier once the model's supply is spent.
FreshIds ==
    IF Ids \ UsedIds = {} THEN Ids
    ELSE {IdOrder[CHOOSE i \in 1..Len(IdOrder) :
            /\ IdOrder[i] \notin UsedIds
            /\ \A j \in 1..(i - 1) : IdOrder[j] \in UsedIds]}

\* The directory rejects the passcode itself: it is not the code sent (wrong or
\* expired), or no challenge was ever issued for the identifier.
PasscodeRejected(accountId, password) ==
    password # "otp" \/ accountId \notin UsedIds

\* account.createSession(userId, secret): accepted when the passcode is the one
\* sent for userId; the session belongs to the account the directory now holds
\* for the challenge's email, which may have moved to another identifier since.
SessionResponses(accountId, password) ==
    (IF PasscodeRejected(accountId, password)
        THEN {Response(FALSE, NoId, ErrInvalidToken)}
        ELSE {Response(TRUE, dirAccount[idOwner[accountId]], NoErr)})
    \cup {Response(FALSE, NoId, ErrServer), Response(FALSE, NoId, ErrInvalidParam)}

\* account.get() under a session secret.
SessionAlive(secret) == secret \in 1..Len(sessions) /\ sessions[secret].alive

\* ------------------------------------------------------------------ actions

\* getUserByEmail, lines 11-21
getUserByEmail(email) == FirstOrNull(listDocuments("email", email))

\* A variant of sendEmailOTP that always returns the identifier it passed.
sendEmailOTPReturnsHint(userIdToUse, r) ==
    IF r.ok
    THEN Return([userId |-> userIdToUse])
    ELSE Throw(NewError(IF r.error.message # <<>> THEN r.error.message ELSE MsgSendOtpDefault))

\* sendEmailOTP, lines 37-63: the identifier of the response, else the one passed;
\* a failure becomes a new Error with the directory's message or a generic one.
sendEmailOTP(userIdToUse, r) ==
    IF r.ok
    THEN IF r.userId = NoId THEN Return([userId |-> userIdToUse]) ELSE Return([userId |-> r.userId])
    ELSE Throw(NewError(IF r.error.message # <<>> THEN r.error.message ELSE MsgSendOtpDefault))

\* A variant of createAccountAfterOtp that replaces a failure's message by its own.
createAccountAfterOtpGeneric(otp, fullName, email) ==
    IF otp.kind = "throw" THEN Throw(NewError(MsgCreateAccountDefault))
    ELSE IF otp.value.userId = NoId THEN Throw(NewError(MsgFailedToSendOtp))
    ELSE Return([accountId |-> otp.value.userId, fullName |-> fullName, email |-> email])

\* createAccount, lines 83-99, after sendEmailOTP settled as `otp`.
createAccountAfterOtp(otp, fullName, email) ==
    IF otp.kind = "throw" THEN Throw(otp.error)
    ELSE IF otp.value.userId = NoId THEN Throw(NewError(MsgFailedToSendOtp))
    ELSE Return([accountId |-> otp.value.userId, fullName |-> fullName, email |-> email])

\* createAccount, lines 73-79 and 92-99: the lookup and the already-exists check.
CreateAccountLookup(p, fullName, email) ==
    /\ pc[p] = "idle"
    /\ calls' = Bump(p, "listDocuments")
    /\ \E ok \in BOOLEAN :
        LET existingUser == getUserByEmail(email)
            l == [Blank EXCEPT !.op = "createAccount", !.fullName = fullName, !.email = email,
                               !.existing = IF ok THEN existingUser ELSE NullDoc,
                               !.envFault = ~ok, !.hadProfile = HasProfile(email),
                               !.failed = IF ok THEN NoCall ELSE "listDocuments"]
        IN /\ loc' = [loc EXCEPT ![p] = l]
           /\ IF ~ok
              THEN /\ result' = [result EXCEPT ![p] = Throw(ErrServer)]
                   /\ pc' = [pc EXCEPT ![p] = "done"]
              ELSE IF existingUser # NullDoc
              THEN /\ result' = [result EXCEPT ![p] = Throw(NewError(MsgAccountExists))]
                   /\ pc' = [pc EXCEPT ![p] = "done"]
              ELSE /\ result' = result
                   /\ pc' = [pc EXCEPT ![p] = "ca_otp"]
    /\ UNCHANGED <<users, dirAccount, idOwner, sessions, cookie>>
    /\ UNCHANGED fileVars

\* A variant of CreateAccountOtp that already stores the profile at sign-up.
CreateAccountOtpStoresProfile(p) ==
    /\ pc[p] = "ca_otp"
    /\ calls' = Bump(p, "createEmailToken")
    /\ \E userIdToUse \in FreshIds : \E r \in TokenResponses(userIdToUse, loc[p].email) :
        /\ IssueToken(r, userIdToUse, loc[p].email)
        /\ loc' = [loc EXCEPT ![p].hint = userIdToUse, ![p].envFault = ~r.ok,
                              ![p].omitted = r.ok /\ r.userId = NoId,
                              ![p].failed = IF r.ok THEN NoCall ELSE "createEmailToken",
                              ![p].otpError = r.error]
        /\ result' = [result EXCEPT ![p] =
                createAccountAfterOtp(sendEmailOTP(userIdToUse, r), loc[p].fullName, loc[p].email)]
        /\ users' = IF r.ok /\ ~UniqueEmailViolated(NormalizeEmail(loc[p].email))
                    THEN Append(users, Doc(Len(users) + 1, loc[p].fullName,
                                           NormalizeEmail(loc[p].email), avatarPlaceholderUrl,
                                           sendEmailOTP(userIdToUse, r).value.userId))
                    ELSE users
    /\ pc' = [pc EXCEPT ![p] = "done"]
    /\ UNCHANGED <<sessions, cookie>>
    /\ UNCHANGED fileVars

\* createAccount, line 83: sendEmailOTP({email}) with a generated identifier.
CreateAccountOtp(p) ==
    /\ pc[p] = "ca_otp"
    /\ calls' = Bump(p, "createEmailToken")
    /\ \E userIdToUse \in FreshIds : \E r \in TokenResponses(userIdToUse, loc[p].email) :
        /\ IssueToken(r, userIdToUse, loc[p].email)
        /\ loc' = [loc EXCEPT ![p].hint = userIdToUse, ![p].envFault = ~r.ok,
                              ![p].omitted = r.ok /\ r.userId = NoId,
                              ![p].failed = IF r.ok THEN NoCall ELSE "createEmailToken",
                              ![p].otpError = r.error]
        /\ result' = [result EXCEPT ![p] =
                createAccountAfterOtp(sendEmailOTP(userIdToUse, r), loc[p].fullName, loc[p].email)]
    /\ pc' = [pc EXCEPT ![p] = "done"]
    /\ UNCHANGED <<users, sessions, cookie>>
    /\ UNCHANGED fileVars

\* The caller has received the outcome; the request handler is free again.
Complete(p) ==
    /\ pc[p] = "done"
    /\ pc' = [pc EXCEPT ![p] = "idle"]
    /\ loc' = [loc EXCEPT ![p] = Blank]
    /\ calls' = [calls EXCEPT ![p] = NoCalls]
    /\ result' = [result EXCEPT ![p] = NoResult]
    /\ floc' = [floc EXCEPT ![p] = FileBlank]
    /\ UNCHANGED <<users, dirAccount, idOwner, sessions, cookie>>
    /\ UNCHANGED <<bucket, files, unique>>

\* signInUser, lines 313-323, after sendEmailOTP settled as `otp`.
signInAfterOtp(otp) ==
    IF otp.kind = "throw" THEN Throw(otp.error)
    ELSE IF otp.value.userId = NoId THEN Throw(NewError(MsgFailedToSendOtp))
    ELSE Return([accountId |-> otp.value.userId])

\* A variant of signInAfterLookup that reports an unknown email by throwing.
signInAfterLookupThrows(existingUser) ==
    IF existingUser = NullDoc THEN Throw(NewError(MsgUserNotFound)) ELSE NoResult

\* signInUser, lines 304-308: an unknown email is answered with a structured
\* result (accountId null and a message), not with an exception; NoResult
\* stands for "carry on".
signInAfterLookup(existingUser) ==
    IF existingUser = NullDoc
    THEN Return([accountId |-> NoId, error |-> MsgUserNotFound])
    ELSE NoResult

\* A variant of signInCatch that answers a failure with a structured result.
signInCatchSwallows(completion) ==
    IF completion.kind = "throw"
    THEN Return([accountId |-> NoId, error |-> MsgSignInDefault])
    ELSE completion

\* signInUser, lines 324-327: whatever was thrown inside the try block is
\* rethrown as a new Error carrying the same message.
signInCatch(completion) ==
    IF completion.kind = "throw"
    THEN Throw(NewError(IF completion.error.message # <<>>
                        THEN completion.error.message ELSE MsgSignInDefault))
    ELSE completion

\* signInUser, lines 302-308 and 324-327: the lookup and the not-found result.
SignInLookup(p, email) ==
    /\ pc[p] = "idle"
    /\ calls' = Bump(p, "listDocuments")
    /\ \E ok \in BOOLEAN :
        LET existingUser == getUserByEmail(email)
            l == [Blank EXCEPT !.op = "signInUser", !.email = email,
                               !.existing = IF ok THEN existingUser ELSE NullDoc,
                               !.envFault = ~ok, !.hadProfile = HasProfile(email),
                               !.failed = IF ok THEN NoCall ELSE "listDocuments"]
            completion == signInCatch(IF ok THEN signInAfterLookup(existingUser) ELSE Throw(ErrServer))
        IN /\ loc' = [loc EXCEPT ![p] = l]
           /\ result' = [result EXCEPT ![p] = completion]
           /\ pc' = [pc EXCEPT ![p] = IF completion.kind = "none" THEN "si_otp" ELSE "done"]
    /\ UNCHANGED <<users, dirAccount, idOwner, sessions, cookie>>
    /\ UNCHANGED fileVars

\* A variant of SignInHints that always generates an identifier.
SignInHintsAlwaysFresh(existingAccountId) == FreshIds

\* signInUser, lines 312-316 with sendEmailOTP line 41: the stored accountId is
\* the hint, a generated identifier when it is empty.
SignInHints(existingAccountId) == IF existingAccountId # NoId THEN {existingAccountId} ELSE FreshIds

\* A variant of SignInOtp that already writes the returned identifier into the profile.
SignInOtpUpdatesProfile(p) ==
    /\ pc[p] = "si_otp"
    /\ calls' = Bump(p, "createEmailToken")
    /\ \E userIdToUse \in SignInHints(loc[p].existing.accountId) :
       \E r \in TokenResponses(userIdToUse, loc[p].email) :
        /\ IssueToken(r, userIdToUse, loc[p].email)
        /\ loc' = [loc EXCEPT ![p].hint = userIdToUse, ![p].envFault = ~r.ok,
                              ![p].omitted = r.ok /\ r.userId = NoId,
                              ![p].failed = IF r.ok THEN NoCall ELSE "createEmailToken",
                              ![p].otpError = r.error]
        /\ result' = [result EXCEPT ![p] =
                signInCatch(signInAfterOtp(sendEmailOTP(userIdToUse, r)))]
        /\ users' = IF r.ok /\ r.userId # NoId
                    THEN updateDocument(loc[p].existing.id, r.userId) ELSE users
    /\ pc' = [pc EXCEPT ![p] = "done"]
    /\ UNCHANGED <<sessions, cookie>>
    /\ UNCHANGED fileVars

\* signInUser, lines 312-323: sendEmailOTP({email, userId}) with the stored hint.
SignInOtp(p) ==
    /\ pc[p] = "si_otp"
    /\ calls' = Bump(p, "createEmailToken")
    /\ \E userIdToUse \in SignInHints(loc[p].existing.accountId) :
       \E r \in TokenResponses(userIdToUse, loc[p].email) :
        /\ IssueToken(r, userIdToUse, loc[p].email)
        /\ loc' = [loc EXCEPT ![p].hint = userIdToUse, ![p].envFault = ~r.ok,
                              ![p].omitted = r.ok /\ r.userId = NoId,
                              ![p].failed = IF r.ok THEN NoCall ELSE "createEmailToken",
                              ![p].otpError = r.error]
        /\ result' = [result EXCEPT ![p] =
                signInCatch(signInAfterOtp(sendEmailOTP(userIdToUse, r)))]
    /\ pc' = [pc EXCEPT ![p] = "done"]
    /\ UNCHANGED <<users, sessions, cookie>>
    /\ UNCHANGED fileVars

\* verifySecret, lines 124-131: the classification of a createSession failure.
sessionCatch(error) ==
    IF \/ error.code = 401
       \/ includes(error.message, <<"Invalid", "token">>)
       \/ includes(error.message, <<"Invalid">>)
    THEN NewError(MsgInvalidOtpInner)
    ELSE error

\* A variant of verifyCatch that rethrows whatever it caught.
verifyCatchRethrow(error) == error

\* verifySecret, lines 232-253: the outer catch, applied to whatever was thrown.
verifyCatch(error) ==
    IF \/ error.code = 401
       \/ includes(lowerMessage(error.message), <<"invalid", "token">>)
       \/ includes(lowerMessage(error.message), <<"invalid">>)
    THEN NewError(MsgInvalidOtp)
    ELSE IF includes(error.message, <<"expired">>) THEN NewError(MsgOtpExpired)
    ELSE IF error.message # <<>> THEN error
    ELSE NewError(MsgInvalidOtpDefault)

\* verifySecret, lines 180-181: the profile-persistence error.
saveUserError(dbError) ==
    NewError(MsgSaveUserPrefix
             \o (IF dbError.message # <<>> THEN dbError.message ELSE MsgUnknownDb)
             \o MsgSaveUserSuffix)

\* A variant of userData that stores the email as it was typed.
userDataRawEmail(fullName, email, actualAccountId) ==
    Doc(Len(users) + 1, trim(fullName), email, avatarPlaceholderUrl, actualAccountId)

\* A variant of userData that lower-cases the email without trimming it.
userDataUntrimmedEmail(fullName, email, actualAccountId) ==
    Doc(Len(users) + 1, trim(fullName), toLowerCase(email), avatarPlaceholderUrl, actualAccountId)

\* verifySecret, lines 153-158: the document of a new profile.
userData(fullName, email, actualAccountId) ==
    Doc(Len(users) + 1, trim(fullName), NormalizeEmail(email), avatarPlaceholderUrl, actualAccountId)

\* A variant of needsUpdate that rewrites every non-empty stored accountId.
needsUpdateAlways(currentAccountId, actualAccountId) ==
    currentAccountId # NoId

\* A variant of needsUpdate with the comparison inverted.
needsUpdateWhenEqual(currentAccountId, actualAccountId) ==
    currentAccountId # NoId /\ currentAccountId = actualAccountId

\* verifySecret, lines 187 and 204: whether the stored accountId is rewritten.
needsUpdate(currentAccountId, actualAccountId) ==
    currentAccountId # NoId /\ currentAccountId # actualAccountId

\* A variant of isNewUser that asks for the email only.
isNewUserEmailOnly(existingUser, fullName, email) ==
    existingUser = NullDoc /\ Truthy(email)

\* verifySecret, line 150: the sign-up branch.
isNewUser(existingUser, fullName, email) ==
    existingUser = NullDoc /\ Truthy(fullName) /\ Truthy(email)

\* Where verifySecret goes once `existingUser` holds a found profile (or none).
afterFound(existingUser, actualAccountId) ==
    IF existingUser # NullDoc /\ needsUpdate(existingUser.accountId, actualAccountId)
    THEN "vs_update" ELSE "vs_cookie"

Fail(p, error) ==
    /\ result' = [result EXCEPT ![p] = Throw(error)]
    /\ pc' = [pc EXCEPT ![p] = "done"]

\* verifySecret, lines 147-150 and 201-204: the branch taken once the first
\* lookup settled.
afterLookup(existingUser, fullName, email, actualAccountId) ==
    IF isNewUser(existingUser, fullName, email)
    THEN "vs_create" ELSE afterFound(existingUser, actualAccountId)

\* verifySecret, lines 113-150: account.createSession(accountId, password),
\* accountApi.get() under the new session, getUserByEmail(email) when an email
\* was passed. The two directory calls concern the request's own new session
\* only, so they are taken together with the first access to the Profile Store.
VerifyStart(p, accountId, password, fullName, email) ==
    /\ pc[p] = "idle"
    /\ Len(sessions) < MaxSessions
    /\ \E r \in SessionResponses(accountId, password), getOk \in BOOLEAN, listOk \in BOOLEAN :
        LET l == [Blank EXCEPT !.op = "verifySecret", !.accountId = accountId]
            secret == Len(sessions) + 1
            existingUser == getUserByEmail(email)
            m == [l EXCEPT !.fullName = fullName, !.email = email, !.secret = secret,
                           !.actual = r.userId,
                           !.hadProfile = Truthy(email) /\ HasProfile(email)]
        IN IF ~r.ok
           THEN /\ sessions' = sessions
                /\ calls' = Bump(p, "createSession")
                /\ loc' = [loc EXCEPT ![p] =
                        [l EXCEPT !.rejected = (r.error = ErrInvalidToken),
                                  !.envFault = (r.error # ErrInvalidToken),
                                  !.failed = "createSession",
                                  !.sessionError = r.error]]
                /\ Fail(p, verifyCatch(sessionCatch(r.error)))
           ELSE /\ sessions' = Append(sessions, [userId |-> r.userId, alive |-> TRUE])
                /\ IF ~getOk
                   THEN /\ calls' = [calls EXCEPT ![p].createSession = 1, ![p].get = 1]
                        /\ loc' = [loc EXCEPT ![p] = [l EXCEPT !.secret = secret, !.envFault = TRUE,
                                                                 !.failed = "get"]]
                        /\ Fail(p, verifyCatch(ErrServer))
                   ELSE IF ~Truthy(email)
                   THEN /\ calls' = [calls EXCEPT ![p].createSession = 1, ![p].get = 1]
                        /\ loc' = [loc EXCEPT ![p] = m]
                        /\ pc' = [pc EXCEPT ![p] = "vs_cookie"]
                        /\ result' = result
                   ELSE IF ~listOk
                   THEN /\ calls' = [calls EXCEPT ![p].createSession = 1, ![p].get = 1,
                                                  ![p].listDocuments = 1]
                        /\ loc' = [loc EXCEPT ![p] = [m EXCEPT !.envFault = TRUE,
                                                                 !.failed = "listDocuments"]]
                        /\ Fail(p, verifyCatch(ErrServer))
                   ELSE /\ calls' = [calls EXCEPT ![p].createSession = 1, ![p].get = 1,
                                                  ![p].listDocuments = 1]
                        /\ loc' = [loc EXCEPT ![p] = [m EXCEPT !.existing = existingUser]]
                        /\ pc' = [pc EXCEPT ![p] = afterLookup(existingUser, fullName, email, r.userId)]
                        /\ result' = result
    /\ UNCHANGED <<users, dirAccount, idOwner, cookie>>
    /\ UNCHANGED fileVars

\* How databases.createDocument(users, ID.unique(), userData) may fail.
CreateDocumentErrors(doc) ==
    IF UniqueEmailViolated(doc.email) THEN {ErrDuplicate} ELSE {ErrServer, ErrInvalidStructure}

\* A variant of VerifyCreate that writes the cookie before it creates the document.
VerifyCreateAfterCookie(p) ==
    /\ pc[p] = "vs_create"
    /\ calls' = [calls EXCEPT ![p].createDocument = @ + 1, ![p].cookieSet = @ + 1]
    /\ cookie' = loc[p].secret
    /\ LET doc == userData(loc[p].fullName, loc[p].email, loc[p].actual) IN
       \/ /\ ~UniqueEmailViolated(doc.email)
          /\ users' = Append(users, doc)
          /\ loc' = [loc EXCEPT ![p].existing = doc]
          /\ pc' = [pc EXCEPT ![p] = "vs_cookie"]
       \/ \E dbError \in CreateDocumentErrors(doc) :
          /\ users' = users
          /\ loc' = [loc EXCEPT ![p].dbError = dbError,
                                ![p].envFault = ~UniqueEmailViolated(doc.email),
                                ![p].failed = "createDocument"]
          /\ pc' = [pc EXCEPT ![p] = "vs_requery"]
    /\ UNCHANGED <<dirAccount, idOwner, sessions, result>>
    /\ UNCHANGED fileVars

\* verifySecret, lines 151-174: create the profile document.
VerifyCreate(p) ==
    /\ pc[p] = "vs_create"
    /\ calls' = Bump(p, "createDocument")
    /\ LET doc == userData(loc[p].fullName, loc[p].email, loc[p].actual) IN
       \/ /\ ~UniqueEmailViolated(doc.email)
          /\ users' = Append(users, doc)
          /\ loc' = [loc EXCEPT ![p].existing = doc]
          /\ pc' = [pc EXCEPT ![p] = "vs_cookie"]
       \/ \E dbError \in CreateDocumentErrors(doc) :
          /\ users' = users
          /\ loc' = [loc EXCEPT ![p].dbError = dbError,
                                ![p].envFault = ~UniqueEmailViolated(doc.email),
                                ![p].failed = "createDocument"]
          /\ pc' = [pc EXCEPT ![p] = "vs_requery"]
    /\ UNCHANGED <<dirAccount, idOwner, sessions, cookie, result>>
    /\ UNCHANGED fileVars

\* A variant of VerifyRequery that tries createDocument again.
VerifyRequeryRetriesCreate(p) ==
    /\ pc[p] = "vs_requery"
    /\ calls' = Bump(p, "listDocuments")
    /\ \E ok \in BOOLEAN :
        LET existingUser == getUserByEmail(loc[p].email) IN
        IF ~ok
        THEN /\ loc' = [loc EXCEPT ![p].envFault = TRUE, ![p].failed = "listDocuments"]
             /\ Fail(p, verifyCatch(ErrServer))
        ELSE IF existingUser = NullDoc
        THEN /\ loc' = loc
             /\ pc' = [pc EXCEPT ![p] = "vs_create"]
             /\ result' = result
        ELSE /\ loc' = [loc EXCEPT ![p].existing = existingUser]
             /\ pc' = [pc EXCEPT ![p] = afterFound(existingUser, loc[p].actual)]
             /\ result' = result
    /\ UNCHANGED <<users, dirAccount, idOwner, sessions, cookie>>
    /\ UNCHANGED fileVars

\* verifySecret, lines 176-187: after a failed create, look the email up again.
VerifyRequery(p) ==
    /\ pc[p] = "vs_requery"
    /\ calls' = Bump(p, "listDocuments")
    /\ \E ok \in BOOLEAN :
        LET existingUser == getUserByEmail(loc[p].email) IN
        IF ~ok
        THEN /\ loc' = [loc EXCEPT ![p].envFault = TRUE, ![p].failed = "listDocuments"]
             /\ Fail(p, verifyCatch(ErrServer))
        ELSE IF existingUser = NullDoc
        THEN /\ loc' = loc
             /\ Fail(p, verifyCatch(saveUserError(loc[p].dbError)))
        ELSE /\ loc' = [loc EXCEPT ![p].existing = existingUser]
             /\ pc' = [pc EXCEPT ![p] = afterFound(existingUser, loc[p].actual)]
             /\ result' = result
    /\ UNCHANGED <<users, dirAccount, idOwner, sessions, cookie>>
    /\ UNCHANGED fileVars

\* A variant of updateCatch that rethrows the update's error.
updateCatchRethrow(updateError) == Throw(updateError)

\* verifySecret, lines 196-198 and 213-215: a failed update is logged and
\* nothing is thrown.
updateCatch(updateError) == NoResult

\* verifySecret, lines 188-198 and 205-215: the best-effort accountId update.
VerifyUpdate(p) ==
    /\ pc[p] = "vs_update"
    /\ calls' = Bump(p, "updateDocument")
    /\ \E ok \in BOOLEAN :
        LET completion == IF ok THEN NoResult ELSE updateCatch(ErrServer) IN
        /\ users' = IF ok THEN updateDocument(loc[p].existing.id, loc[p].actual) ELSE users
        /\ loc' = [loc EXCEPT ![p].updateFailed = ~ok,
                              ![p].failed = IF ok THEN @ ELSE "updateDocument"]
        /\ IF completion.kind = "throw"
           THEN Fail(p, verifyCatch(completion.error))
           ELSE /\ pc' = [pc EXCEPT ![p] = "vs_cookie"]
                /\ result' = result
    /\ UNCHANGED <<dirAccount, idOwner, sessions, cookie>>
    /\ UNCHANGED fileVars

\* A variant of VerifyCookie that keeps a cookie that is already set.
VerifyCookieKeepsExisting(p) ==
    /\ pc[p] = "vs_cookie"
    /\ calls' = Bump(p, "cookieSet")
    /\ cookie' = IF cookie = NoCookie THEN loc[p].secret ELSE cookie
    /\ result' = [result EXCEPT ![p] =
            Return([sessionId |-> loc[p].secret, success |-> TRUE, accountId |-> loc[p].actual])]
    /\ pc' = [pc EXCEPT ![p] = "done"]
    /\ UNCHANGED <<users, dirAccount, idOwner, sessions, loc>>
    /\ UNCHANGED fileVars

\* A variant of VerifyCookie that returns the identifier the caller passed in.
VerifyCookieReturnsPassedId(p) ==
    /\ pc[p] = "vs_cookie"
    /\ calls' = Bump(p, "cookieSet")
    /\ cookie' = loc[p].secret
    /\ result' = [result EXCEPT ![p] =
            Return([sessionId |-> loc[p].secret, success |-> TRUE, accountId |-> loc[p].accountId])]
    /\ pc' = [pc EXCEPT ![p] = "done"]
    /\ UNCHANGED <<users, dirAccount, idOwner, sessions, loc>>
    /\ UNCHANGED fileVars

\* verifySecret, lines 219-231: write the session cookie and return.
VerifyCookie(p) ==
    /\ pc[p] = "vs_cookie"
    /\ calls' = Bump(p, "cookieSet")
    /\ cookie' = loc[p].secret
    /\ result' = [result EXCEPT ![p] =
            Return([sessionId |-> loc[p].secret, success |-> TRUE, accountId |-> loc[p].actual])]
    /\ pc' = [pc EXCEPT ![p] = "done"]
    /\ UNCHANGED <<users, dirAccount, idOwner, sessions, loc>>
    /\ UNCHANGED fileVars

\* getCurrentUser, lines 257-265 and 280-284: the session client and account.get().
GetUserGet(p) ==
    /\ pc[p] = "idle"
    /\ calls' = Bump(p, "get")
    /\ \E ok \in BOOLEAN :
        LET l == [Blank EXCEPT !.op = "getCurrentUser", !.secret = cookie] IN
        IF ok /\ SessionAlive(cookie) /\ sessions[cookie].userId # NoId
        THEN /\ loc' = [loc EXCEPT ![p] = [l EXCEPT !.actual = sessions[cookie].userId]]
             /\ pc' = [pc EXCEPT ![p] = "gu_list"]
             /\ result' = result
        ELSE /\ loc' = [loc EXCEPT ![p] = [l EXCEPT !.envFault = ~ok, !.failed = "get"]]
             /\ result' = [result EXCEPT ![p] = Return(NullDoc)]
             /\ pc' = [pc EXCEPT ![p] = "done"]
    /\ UNCHANGED <<users, dirAccount, idOwner, sessions, cookie>>
    /\ UNCHANGED fileVars

\* getCurrentUser, lines 267-284: the profile whose accountId is the session's.
GetUserList(p) ==
    /\ pc[p] = "gu_list"
    /\ calls' = Bump(p, "listDocuments")
    /\ \E ok \in BOOLEAN :
        /\ result' = [result EXCEPT ![p] =
                Return(IF ok THEN FirstOrNull(listDocuments("accountId", loc[p].actual)) ELSE NullDoc)]
        /\ loc' = [loc EXCEPT ![p].envFault = ~ok,
                              ![p].failed = IF ok THEN NoCall ELSE "listDocuments"]
    /\ pc' = [pc EXCEPT ![p] = "done"]
    /\ UNCHANGED <<users, dirAccount, idOwner, sessions, cookie>>
    /\ UNCHANGED fileVars

\* handleError, lines 23-26: log and rethrow.
handleError(error) == Throw(error)

\* try/finally: a finally block that itself throws (redirect() does) replaces
\* whatever the try or catch block completed with.
finally(completion, final) == IF final.kind = "none" THEN completion ELSE final

\* signOutUser, lines 290-297: the try, catch and finally blocks, given how
\* deleteSession settled.
signOutTry(deleted, error) ==
    finally(IF deleted THEN NoResult ELSE handleError(error), Redirect("/sign-in"))

\* signOutUser, line 288: createSessionClient(), awaited before the try block.
SignOutClient(p) ==
    /\ pc[p] = "idle"
    /\ \E ok \in BOOLEAN :
        LET l == [Blank EXCEPT !.op = "signOutUser", !.secret = cookie,
                               !.envFault = ~ok,
                               !.failed = IF ok THEN NoCall ELSE "createSessionClient"] IN
        /\ loc' = [loc EXCEPT ![p] = l]
        /\ IF ok
           THEN /\ pc' = [pc EXCEPT ![p] = "so_delete"]
                /\ result' = result
           ELSE Fail(p, ErrNoSession)
    /\ UNCHANGED <<users, dirAccount, idOwner, sessions, cookie, calls>>
    /\ UNCHANGED fileVars

\* signOutUser, lines 290-297: deleteSession("current"), then the cookie.
SignOutDelete(p) ==
    /\ pc[p] = "so_delete"
    /\ \E ok \in BOOLEAN :
        IF ok /\ SessionAlive(loc[p].secret)
        THEN /\ sessions' = [sessions EXCEPT ![loc[p].secret].alive = FALSE]
             /\ cookie' = NoCookie
             /\ calls' = [calls EXCEPT ![p].deleteSession = @ + 1, ![p].cookieDelete = @ + 1]
             /\ loc' = loc
             /\ result' = [result EXCEPT ![p] = signOutTry(TRUE, NoErr)]
        ELSE /\ UNCHANGED <<sessions, cookie>>
             /\ calls' = Bump(p, "deleteSession")
             /\ loc' = [loc EXCEPT ![p].envFault = TRUE, ![p].failed = "deleteSession"]
             /\ result' = [result EXCEPT ![p] =
                    signOutTry(FALSE, IF ok THEN ErrNoSession ELSE ErrServer)]
    /\ pc' = [pc EXCEPT ![p] = "done"]
    /\ UNCHANGED <<users, dirAccount, idOwner>>
    /\ UNCHANGED fileVars

\* The directory moves an email's account to a new identifier (identifier drift).
DirectoryReassign(e) ==
    /\ dirAccount[e] # NoId
    /\ Ids \ UsedIds # {}
    /\ \E id \in FreshIds :
        /\ dirAccount' = [dirAccount EXCEPT ![e] = id]
        /\ idOwner' = [idOwner EXCEPT ![id] = e]
    /\ UNCHANGED <<users, sessions, cookie, pc, loc, calls, result>>
    /\ UNCHANGED fileVars

\* ------------------------------------------------------------- file actions

\* handleError(error, message) of the file actions: logs and rethrows the error
\* it was given.
handleFileError(error) == Throw(error)

\* storage.createFile(bucketId, ID.unique(), inputFile): the stored bucket file.
createFile(file) == [id |-> unique + 1, name |-> file.name, sizeOriginal |-> file.size]

\* The fileDocument of uploadFile, lines 35-45, stored under a fresh document id.
fileDocument(bucketFile, ownerId, accountId) ==
    [id |-> unique + 1,
     type |-> getFileType(bucketFile.name).type,
     name |-> bucketFile.name,
     url |-> constructFileUrl(bucketFile.id),
     extension |-> getFileType(bucketFile.name).extension,
     size |-> bucketFile.sizeOriginal,
     owner |-> ownerId,
     accountId |-> accountId,
     users |-> <<>>,
     bucketFileId |-> bucketFile.id]

\* How storage.deleteFile(bucketId, id) can fail: the file is not there, or
\* the storage does not answer.
deleteFileErrors(id) ==
    IF id \in BucketIds THEN {ErrStorageUnavailable} ELSE {ErrFileNotFound}

\* How databases.deleteDocument(files, id) can fail.
deleteDocumentErrors(id) ==
    IF id \in DocumentIds THEN {ErrServer} ELSE {ErrDocumentNotFound}

\* The identifiers the uploads in progress may still generate: one for the
\* bucket file and one for the document.
PendingIds(p) ==
    IF pc[p] = "uploadFile_createFile" THEN 2
    ELSE IF pc[p] = "uploadFile_createDocument" THEN 1 ELSE 0

RECURSIVE PendingIdsOf(_)
PendingIdsOf(S) ==
    IF S = {} THEN 0
    ELSE LET p == CHOOSE q \in S : TRUE IN PendingIds(p) + PendingIdsOf(S \ {p})

\* uploadFile is called (createAdminClient, InputFile.fromBuffer): lines 18-27.
\* An upload starts only while the identifiers it needs are left.
UploadFileStart(p, file, ownerId, accountId) ==
    /\ pc[p] = "idle"
    /\ unique + PendingIdsOf(Procs) + 2 <= MaxUnique
    /\ pc' = [pc EXCEPT ![p] = "uploadFile_createFile"]
    /\ floc' = [floc EXCEPT ![p] =
                  [FileBlank EXCEPT !.op = "uploadFile", !.file = file, !.ownerId = ownerId,
                                    !.accountId = accountId,
                                    !.before = [bucket |-> bucket, files |-> files]]]
    /\ UNCHANGED <<bucket, files, unique, result>>
    /\ UNCHANGED userVars

\* await storage.createFile(...), lines 29-33; a failure reaches the outer catch.
UploadFileCreateFile(p) ==
    /\ pc[p] = "uploadFile_createFile"
    /\ \/ /\ bucket' = bucket \cup {createFile(floc[p].file)}
          /\ unique' = unique + 1
          /\ floc' = [floc EXCEPT ![p].bucketFile = createFile(floc[p].file)]
          /\ pc' = [pc EXCEPT ![p] = "uploadFile_createDocument"]
          /\ UNCHANGED result
       \/ /\ result' = [result EXCEPT ![p] = handleFileError(ErrStorageUnavailable)]
          /\ pc' = [pc EXCEPT ![p] = "done"]
          /\ UNCHANGED <<bucket, unique, floc>>
    /\ UNCHANGED files
    /\ UNCHANGED userVars

\* await databases.createDocument(...), lines 47-53: the new document is
\* returned (lines 59-60), or the rejection enters the .catch handler.
UploadFileCreateDocument(p) ==
    /\ pc[p] = "uploadFile_createDocument"
    /\ \/ /\ files' = files \cup {fileDocument(floc[p].bucketFile, floc[p].ownerId, floc[p].accountId)}
          /\ unique' = unique + 1
          /\ result' = [result EXCEPT ![p] =
                          Return(fileDocument(floc[p].bucketFile, floc[p].ownerId, floc[p].accountId))]
          /\ pc' = [pc EXCEPT ![p] = "done"]
          /\ UNCHANGED floc
       \/ /\ floc' = [floc EXCEPT ![p].documentError = ErrInvalidStructure]
          /\ pc' = [pc EXCEPT ![p] = "uploadFile_compensate"]
          /\ UNCHANGED <<files, unique, result>>
    /\ UNCHANGED bucket
    /\ UNCHANGED userVars

\* A variant of UploadFileCompensate that rethrows without deleting the bucket file.
UploadFileCompensateKeepsFile(p) ==
    /\ pc[p] = "uploadFile_compensate"
    /\ floc' = [floc EXCEPT ![p].compensated = TRUE]
    /\ result' = [result EXCEPT ![p] = handleFileError(floc[p].documentError)]
    /\ pc' = [pc EXCEPT ![p] = "done"]
    /\ UNCHANGED <<bucket, files, unique>>
    /\ UNCHANGED userVars

\* The .catch handler of createDocument, lines 54-57: await
\* storage.deleteFile(bucketId, bucketFile.$id), then handleError(error, ...);
\* when the delete itself rejects, its error is the one that propagates. The
\* outer catch (lines 61-63) rethrows what it receives.
UploadFileCompensate(p) ==
    /\ pc[p] = "uploadFile_compensate"
    /\ \/ /\ floc[p].bucketFile.id \in BucketIds
          /\ bucket' = {f \in bucket : f.id # floc[p].bucketFile.id}
          /\ floc' = [floc EXCEPT ![p].compensated = TRUE]
          /\ result' = [result EXCEPT ![p] = handleFileError(floc[p].documentError)]
       \/ \E error \in deleteFileErrors(floc[p].bucketFile.id) :
            /\ result' = [result EXCEPT ![p] = handleFileError(error)]
            /\ UNCHANGED <<bucket, floc>>
    /\ pc' = [pc EXCEPT ![p] = "done"]
    /\ UNCHANGED <<files, unique>>
    /\ UNCHANGED userVars

\* deleteFile is called (createAdminClient): lines 173-178. The caller passes
\* the document id and the bucket file id as two arguments.
DeleteFileStart(p, fileId, bucketFileId) ==
    /\ pc[p] = "idle"
    /\ fileId \in GeneratedIds
    /\ bucketFileId \in GeneratedIds
    /\ pc' = [pc EXCEPT ![p] = "deleteFile_deleteDocument"]
    /\ floc' = [floc EXCEPT ![p] =
                  [FileBlank EXCEPT !.op = "deleteFile", !.fileId = fileId,
                                    !.bucketFileId = bucketFileId]]
    /\ UNCHANGED <<bucket, files, unique, result>>
    /\ UNCHANGED userVars

\* const deletedFile = await databases.deleteDocument(...), lines 181-185; a
\* failure reaches the catch (lines 193-195). The response of a successful
\* deletion is an object, so `if (deletedFile)` (line 187) holds.
DeleteFileDocument(p) ==
    /\ pc[p] = "deleteFile_deleteDocument"
    /\ \/ /\ floc[p].fileId \in DocumentIds
          /\ files' = {d \in files : d.id # floc[p].fileId}
          /\ floc' = [floc EXCEPT ![p].deletedFile = TRUE]
          /\ pc' = [pc EXCEPT ![p] = "deleteFile_deleteFile"]
          /\ UNCHANGED result
       \/ \E error \in deleteDocumentErrors(floc[p].fileId) :
            /\ result' = [result EXCEPT ![p] = handleFileError(error)]
            /\ pc' = [pc EXCEPT ![p] = "done"]
            /\ UNCHANGED <<files, floc>>
    /\ UNCHANGED <<bucket, unique>>
    /\ UNCHANGED userVars

\* await storage.deleteFile(bucketId, bucketFileId), lines 187-189, then
\* return {status: "success"} (lines 191-192).
DeleteFileBucketFile(p) ==
    /\ pc[p] = "deleteFile_deleteFile"
    /\ floc[p].deletedFile
    /\ \/ /\ floc[p].bucketFileId \in BucketIds
          /\ bucket' = {f \in bucket : f.id # floc[p].bucketFileId}
          /\ result' = [result EXCEPT ![p] = Return([status |-> "success"])]
       \/ \E error \in deleteFileErrors(floc[p].bucketFileId) :
            /\ result' = [result EXCEPT ![p] = handleFileError(error)]
            /\ UNCHANGED bucket
    /\ pc' = [pc EXCEPT ![p] = "done"]
    /\ UNCHANGED <<files, unique, floc>>
    /\ UNCHANGED userVars

\* ------------------------------------------------------------- file queries

\* The value of a parameter the caller leaves out, and of an array element
\* that is not there.
Undefined == <<"undefined">>

\* sortTypes: the sort values offered to users. A string is the tuple of its
\* tokens, the dash being a token of its own.
sortTypes ==
    {<<"$createdAt", "-", "desc">>, <<"$createdAt", "-", "asc">>,
     <<"name", "-", "asc">>, <<"name", "-", "desc">>,
     <<"size", "-", "desc">>, <<"size", "-", "asc">>}

\* sort.split("-"): the parts of the string between the separators.
RECURSIVE split(_, _)
split(s, sep) ==
    IF \A i \in 1..Len(s) : s[i] # sep
    THEN <<s>>
    ELSE LET i == CHOOSE k \in 1..Len(s) : s[k] = sep /\ \A j \in 1..(k - 1) : s[j] # sep
         IN  <<SubSeq(s, 1, i - 1)>> \o split(SubSeq(s, i + 1, Len(s)), sep)

\* Array destructuring: element i, or undefined.
ElementAt(parts, i) == IF i <= Len(parts) THEN parts[i] ELSE Undefined

\* A query of the platform's query language.
Query(method, attribute, values) ==
    [method |-> method, attribute |-> attribute, values |-> values]

\* A variant of orderClause that orders ascending unless the suffix is "desc"
\* and names the whole sort value as the field.
orderClauseWholeValue(sort) ==
    IF ElementAt(split(sort, "-"), 2) = <<"desc">>
    THEN Query("orderDesc", sort, <<>>)
    ELSE Query("orderAsc", sort, <<>>)

\* createQueries, lines 85-89: const [sortBy, orderBy] = sort.split("-");
\* orderBy === "asc" ? Query.orderAsc(sortBy) : Query.orderDesc(sortBy)
orderClause(sort) ==
    LET sortBy == ElementAt(split(sort, "-"), 1)
        orderBy == ElementAt(split(sort, "-"), 2)
    IN  IF orderBy = <<"asc">>
        THEN Query("orderAsc", sortBy, <<>>)
        ELSE Query("orderDesc", sortBy, <<>>)

\* A variant of ownerOrShared that accepts the files of every owner.
ownerOrSharedAnyOwner(currentUser) ==
    Query("or", <<>>, <<Query("equal", <<"owner">>, <<1, 2>>),
                        Query("contains", <<"users">>, <<currentUser.email>>)>>)

\* createQueries, lines 74-77: owned by the current user or shared with them.
ownerOrShared(currentUser) ==
    Query("or", <<>>, <<Query("equal", <<"owner">>, <<currentUser.id>>),
                        Query("contains", <<"users">>, <<currentUser.email>>)>>)

\* createQueries, lines 66-93. An absent limit is 0 and an absent search text
\* is the empty string: both are falsy.
createQueries(currentUser, types, searchText, sort, limit) ==
    <<ownerOrShared(currentUser)>>
    \o (IF Len(types) > 0 THEN <<Query("equal", <<"type">>, types)>> ELSE <<>>)
    \o (IF searchText # <<>> THEN <<Query("contains", <<"name">>, <<searchText>>)>> ELSE <<>>)
    \o (IF limit # 0 THEN <<Query("limit", <<>>, <<limit>>)>> ELSE <<>>)
    \o (IF sort # <<>> THEN <<orderClause(sort)>> ELSE <<>>)

\* The elements of a list.
Range(s) == {s[i] : i \in 1..Len(s)}

\* Whether a document satisfies a filter query; limit and order clauses
\* filter nothing.
RECURSIVE Matches(_, _)
Matches(d, q) ==
    IF q.method = "or" THEN \E i \in 1..Len(q.values) : Matches(d, q.values[i])
    ELSE IF q.method = "equal" /\ q.attribute = <<"owner">> THEN d.owner \in Range(q.values)
    ELSE IF q.method = "equal" /\ q.attribute = <<"type">> THEN d.type \in Range(q.values)
    ELSE IF q.method = "contains" /\ q.attribute = <<"users">>
        THEN \E v \in Range(q.values) : v \in Range(d.users)
    ELSE IF q.method = "contains" /\ q.attribute = <<"name">>
        THEN \E v \in Range(q.values) : includes(d.name, v)
    ELSE TRUE

\* Names in alphabetical order of their first part.
AlphabeticalOrder == <<"notes", "p", "r", "s", "x">>

\* The key the platform orders a document by.
OrderKey(d, attribute) ==
    IF attribute = <<"size">> THEN d.size
    ELSE IF attribute = <<"name">>
        THEN IF d.name # <<>> /\ d.name[1] \in Range(AlphabeticalOrder)
             THEN CHOOSE i \in 1..Len(AlphabeticalOrder) : AlphabeticalOrder[i] = d.name[1]
             ELSE 0
    ELSE d.id

\* The documents of S in the order of the clause; documents with equal keys
\* and documents listed without an order clause come in creation order.
RECURSIVE Ordered(_, _)
Ordered(S, clause) ==
    IF S = {} THEN <<>>
    ELSE LET Before(a, b) ==
                 IF clause.method = "orderAsc"
                     /\ OrderKey(a, clause.attribute) # OrderKey(b, clause.attribute)
                 THEN OrderKey(a, clause.attribute) < OrderKey(b, clause.attribute)
                 ELSE IF clause.method = "orderDesc"
                     /\ OrderKey(a, clause.attribute) # OrderKey(b, clause.attribute)
                 THEN OrderKey(a, clause.attribute) > OrderKey(b, clause.attribute)
                 ELSE a.id <= b.id
             first == CHOOSE a \in S : \A b \in S : Before(a, b)
         IN  <<first>> \o Ordered(S \ {first}, clause)

\* The number of documents the platform returns when the queries carry no
\* Query.limit: its default page size (25 documents), scaled to the library
\* of the model.
DefaultPageSize == 2

\* The clauses of one kind among the queries.
Clauses(queries, methods) == SelectSeq(queries, LAMBDA q : q.method \in methods)

\* databases.listDocuments(files, queries): the matching documents, ordered,
\* cut to the limit of the queries or to the default page size.
listFileDocuments(queries) ==
    LET matching == {d \in files : \A i \in 1..Len(queries) : Matches(d, queries[i])}
        orders == Clauses(queries, {"orderAsc", "orderDesc"})
        limits == Clauses(queries, {"limit"})
        ordered == Ordered(matching, IF Len(orders) > 0 THEN orders[1] ELSE Query("none", <<>>, <<>>))
        size == IF Len(limits) > 0 THEN limits[1].values[1] ELSE DefaultPageSize
    IN  [total |-> Cardinality(matching),
         documents |-> SubSeq(ordered, 1, IF size < Len(ordered) THEN size ELSE Len(ordered))]

\* What getCurrentUser returns under the session named by the cookie when none
\* of its calls fails: lines 260-279.
CurrentUser ==
    IF SessionAlive(cookie)
    THEN FirstOrNull(listDocuments("accountId", sessions[cookie].userId))
    ELSE NullDoc

\* ------------------------------------------------------------- file library

\* What getCurrentUser resolves to for a caller of a file action: the profile
\* of the session named by the cookie, or null when one of its calls fails.
getCurrentUserResults == {CurrentUser, NullDoc}

\* new Error(message), thrown by the file actions themselves.
Error(message) == Err(0, message)

MsgNotAuthenticated == <<"User", "is", "not", "authenticated">>

\* The lists of emails a caller shares a file with.
EmailLists == {<<>>, << <<"a">> >>, << <<"b">>, <<"a">> >>}

\* The new names a caller types, without the extension.
NewNames == {<<"x">>}

NewExtensions == {"png"}

\* The arguments callers pass to getFiles; 0 is the absent limit.
TypeLists == {<<>>, <<"document">>}

SearchTexts == {<<>>, <<"r">>}

SortInputs == sortTypes \cup {Undefined, <<>>}

Limits == {0, 1}

\* The document uploadFile stores for a bucket file under the identifier id.
StoredDocument(id, bucketFile, ownerId, accountId) ==
    [id |-> id,
     type |-> getFileType(bucketFile.name).type,
     name |-> bucketFile.name,
     url |-> constructFileUrl(bucketFile.id),
     extension |-> getFileType(bucketFile.name).extension,
     size |-> bucketFile.sizeOriginal,
     owner |-> ownerId,
     accountId |-> accountId,
     users |-> <<>>,
     bucketFileId |-> bucketFile.id]

\* The bucket of the library: three files uploaded by the profile of "a"
\* (profile 2) and two that belong to the profile the store starts with.
LibraryBucket ==
    {[id |-> 1, name |-> <<"r", "PDF">>, sizeOriginal |-> 1],
     [id |-> 3, name |-> <<"notes">>, sizeOriginal |-> 2],
     [id |-> 5, name |-> <<"p", "PNG">>, sizeOriginal |-> 4],
     [id |-> 7, name |-> <<"s", "mp3">>, sizeOriginal |-> 8],
     [id |-> 9, name |-> <<"x", "mp4">>, sizeOriginal |-> 16]}

LibraryFiles ==
    {StoredDocument(f.id + 1, f, IF f.id >= 7 THEN 1 ELSE 2, IF f.id >= 7 THEN NoId ELSE "I1") :
        f \in LibraryBucket}

\* The documents callers rename or share, and an identifier of no document.
TargetIds == {2, 8, 11}

\* The document with the identifier, if there is one.
DocumentsWithId(fileId) == {d \in files : d.id = fileId}

\* A variant of updateFileDocument that resets the users list of the document
\* it updates.
updateFileDocumentResetsUsers(fileId, field, value) ==
    {IF d.id = fileId THEN [[d EXCEPT !.users = <<>>] EXCEPT ![field] = value] ELSE d : d \in files}

\* databases.updateDocument(files, fileId, data): the fields of data replace
\* those of the document, the others stay.
updateFileDocument(fileId, field, value) ==
    {IF d.id = fileId THEN [d EXCEPT ![field] = value] ELSE d : d \in files}

\* getFiles is called (createAdminClient): lines 95-101, with the defaults of
\* the parameters the caller leaves out.
GetFilesStart(p, types, searchText, sort, limit) ==
    /\ pc[p] = "idle"
    /\ pc' = [pc EXCEPT ![p] = "getFiles_getCurrentUser"]
    /\ floc' = [floc EXCEPT ![p] =
                  [FileBlank EXCEPT !.op = "getFiles", !.types = types, !.searchText = searchText,
                                    !.sort = IF sort = Undefined THEN <<"$createdAt", "-", "desc">> ELSE sort,
                                    !.limit = limit]]
    /\ UNCHANGED <<bucket, files, unique, result>>
    /\ UNCHANGED userVars

\* getFiles, lines 104-108 and 118-120: await getCurrentUser(), the error when
\* there is no current user, createQueries.
GetFilesCurrentUser(p) ==
    /\ pc[p] = "getFiles_getCurrentUser"
    /\ \E currentUser \in getCurrentUserResults :
        IF currentUser = NullDoc
        THEN /\ result' = [result EXCEPT ![p] = handleFileError(Error(MsgUserNotFound))]
             /\ pc' = [pc EXCEPT ![p] = "done"]
             /\ UNCHANGED floc
        ELSE /\ floc' = [floc EXCEPT ![p].currentUser = currentUser,
                                     ![p].queries = createQueries(currentUser, floc[p].types,
                                                        floc[p].searchText, floc[p].sort, floc[p].limit)]
             /\ pc' = [pc EXCEPT ![p] = "getFiles_listDocuments"]
             /\ UNCHANGED result
    /\ UNCHANGED <<bucket, files, unique>>
    /\ UNCHANGED userVars

\* getFiles, lines 110-120: await databases.listDocuments(files, queries).
GetFilesList(p) ==
    /\ pc[p] = "getFiles_listDocuments"
    /\ \/ result' = [result EXCEPT ![p] = Return(listFileDocuments(floc[p].queries))]
       \/ result' = [result EXCEPT ![p] = handleFileError(ErrServer)]
    /\ pc' = [pc EXCEPT ![p] = "done"]
    /\ UNCHANGED <<bucket, files, unique, floc>>
    /\ UNCHANGED userVars

\* renameFile, lines 123-147: updateDocument(files, fileId, {name: newName})
\* with newName = `${name}.${extension}`.
RenameFile(p, fileId, name, extension) ==
    /\ pc[p] = "idle"
    /\ floc' = [floc EXCEPT ![p] =
                  [FileBlank EXCEPT !.op = "renameFile", !.fileId = fileId,
                                    !.name = name, !.extension = extension]]
    /\ \/ /\ fileId \in DocumentIds
          /\ files' = updateFileDocument(fileId, "name", name \o <<extension>>)
          /\ result' = [result EXCEPT ![p] = Return(DocumentsWithId(fileId))']
       \/ /\ files' = files
          /\ result' = [result EXCEPT ![p] = handleFileError(
                            IF fileId \in DocumentIds THEN ErrServer ELSE ErrDocumentNotFound)]
    /\ pc' = [pc EXCEPT ![p] = "done"]
    /\ UNCHANGED <<bucket, unique>>
    /\ UNCHANGED userVars

\* updateFileUsers, lines 149-171: updateDocument(files, fileId, {users: emails}).
UpdateFileUsers(p, fileId, emails) ==
    /\ pc[p] = "idle"
    /\ floc' = [floc EXCEPT ![p] =
                  [FileBlank EXCEPT !.op = "updateFileUsers", !.fileId = fileId, !.emails = emails]]
    /\ \/ /\ fileId \in DocumentIds
          /\ files' = updateFileDocument(fileId, "users", emails)
          /\ result' = [result EXCEPT ![p] = Return(DocumentsWithId(fileId))']
       \/ /\ files' = files
          /\ result' = [result EXCEPT ![p] = handleFileError(
                            IF fileId \in DocumentIds THEN ErrServer ELSE ErrDocumentNotFound)]
    /\ pc' = [pc EXCEPT ![p] = "done"]
    /\ UNCHANGED <<bucket, unique>>
    /\ UNCHANGED userVars

\* The available bucket storage of the summary, line 218, in GB.
totalSpaceAll == 2

\* The summary getTotalSpaceUsed starts from, lines 211-219.

emptyTotalSpace ==
    [image |-> 0, document |-> 0, video |-> 0, audio |-> 0, other |-> 0, used |-> 0,
     all |-> totalSpaceAll]

\* files.documents.forEach, lines 221-232: the size of each document is added
\* to the entry of its type and to `used`.
RECURSIVE sumSpace(_, _)
sumSpace(documents, totalSpace) ==
    IF documents = <<>> THEN totalSpace
    ELSE sumSpace(Tail(documents),
             [totalSpace EXCEPT ![Head(documents).type] = @ + Head(documents).size,
                                !.used = @ + Head(documents).size])

\* getTotalSpaceUsed, lines 199-201 and 235-237: createSessionClient() inside
\* the try block.
GetTotalSpaceUsedClient(p) ==
    /\ pc[p] = "idle"
    /\ floc' = [floc EXCEPT ![p] = [FileBlank EXCEPT !.op = "getTotalSpaceUsed"]]
    /\ \/ /\ pc' = [pc EXCEPT ![p] = "getTotalSpaceUsed_getCurrentUser"]
          /\ UNCHANGED result
       \/ /\ result' = [result EXCEPT ![p] = handleFileError(ErrNoSession)]
          /\ pc' = [pc EXCEPT ![p] = "done"]
    /\ UNCHANGED <<bucket, files, unique>>
    /\ UNCHANGED userVars

\* getTotalSpaceUsed, lines 202-203: await getCurrentUser() and the error when
\* there is no current user.
GetTotalSpaceUsedCurrentUser(p) ==
    /\ pc[p] = "getTotalSpaceUsed_getCurrentUser"
    /\ \E currentUser \in getCurrentUserResults :
        IF currentUser = NullDoc
        THEN /\ result' = [result EXCEPT ![p] = handleFileError(Error(MsgNotAuthenticated))]
             /\ pc' = [pc EXCEPT ![p] = "done"]
             /\ UNCHANGED floc
        ELSE /\ floc' = [floc EXCEPT ![p].currentUser = currentUser,
                                     ![p].queries = <<Query("equal", <<"owner">>, <<currentUser.id>>)>>]
             /\ pc' = [pc EXCEPT ![p] = "getTotalSpaceUsed_listDocuments"]
             /\ UNCHANGED result
    /\ UNCHANGED <<bucket, files, unique>>
    /\ UNCHANGED userVars

\* getTotalSpaceUsed, lines 205-237: the owner's documents are listed without
\* a limit and summed.
GetTotalSpaceUsedList(p) ==
    /\ pc[p] = "getTotalSpaceUsed_listDocuments"
    /\ \/ result' = [result EXCEPT ![p] =
                        Return(sumSpace(listFileDocuments(floc[p].queries).documents, emptyTotalSpace))]
       \/ result' = [result EXCEPT ![p] = handleFileError(ErrServer)]
    /\ pc' = [pc EXCEPT ![p] = "done"]
    /\ UNCHANGED <<bucket, files, unique, floc>>
    /\ UNCHANGED userVars

\* ----------------------------------------------------------- specification

\* The Profile Store the program starts from: one profile left by an earlier
\* version of the schema, without a recorded accountId; the directory holds
\* no account yet.
InitialStore == <<Doc(1, <<"N">>, <<"b">>, avatarPlaceholderUrl, NoId)>>

Init ==
    /\ users = InitialStore
    /\ dirAccount = [e \in NormEmails |-> NoId]
    /\ idOwner = [id \in Ids |-> NoEmail]
    /\ sessions = <<>>
    /\ cookie = NoCookie
    /\ pc = [p \in Procs |-> "idle"]
    /\ loc = [p \in Procs |-> Blank]
    /\ calls = [p \in Procs |-> NoCalls]
    /\ result = [p \in Procs |-> NoResult]
    /\ bucket = {}
    /\ files = {}
    /\ unique = 0
    /\ floc = [p \in Procs |-> FileBlank]

\* The steps of the three sign-up / sign-in actions, for callers typing the
\* emails of `emails`.
AuthStep(p, emails) ==
    \/ \E fullName \in FullNames, email \in emails : CreateAccountLookup(p, fullName, email)
    \/ CreateAccountOtp(p)
    \/ \E email \in emails : SignInLookup(p, email)
    \/ SignInOtp(p)
    \/ \E accountId \in Ids, password \in Passwords,
          fullName \in FullNames \cup {Absent}, email \in emails \cup {Absent} :
            VerifyStart(p, accountId, password, fullName, email)
    \/ VerifyCreate(p)
    \/ VerifyRequery(p)
    \/ VerifyUpdate(p)
    \/ VerifyCookie(p)
    \/ Complete(p)

\* The steps of getCurrentUser and signOutUser.
SessionStep(p) ==
    \/ GetUserGet(p)
    \/ GetUserList(p)
    \/ SignOutClient(p)
    \/ SignOutDelete(p)

Environment ==
    \E e \in NormEmails : DirectoryReassign(e)

\* Any sequence of calls of the five actions, each run to completion before
\* the next one starts: a single handler serves them.
Next == AuthStep("p1", RawEmails) \/ SessionStep("p1") \/ Environment

Spec == Init /\ [][Next]_vars

\* The two spellings of one email that has no profile yet.
SameNewEmail == {e \in RawEmails : NormalizeEmail(e) = <<"a">>}

\* Any interleaving of two concurrent requests of createAccount, signInUser
\* and verifySecret for the same new email.
NextConcurrent == (\E p \in Procs : AuthStep(p, SameNewEmail)) \/ Environment

SpecConcurrent == Init /\ [][NextConcurrent]_vars

\* The steps of uploadFile and deleteFile, for callers uploading the files of
\* `uploads`.
FileStep(p, uploads) ==
    \/ \E file \in uploads, ownerId \in OwnerIds, accountId \in OwnerAccountIds :
          UploadFileStart(p, file, ownerId, accountId)
    \/ UploadFileCreateFile(p)
    \/ UploadFileCreateDocument(p)
    \/ UploadFileCompensate(p)
    \/ \E fileId \in FileIds, bucketFileId \in FileIds : DeleteFileStart(p, fileId, bucketFileId)
    \/ DeleteFileDocument(p)
    \/ DeleteFileBucketFile(p)
    \/ Complete(p)

\* Any sequence of uploadFile and deleteFile calls, each run to completion
\* before the next one starts.
NextFiles == FileStep("p1", UploadFiles)

SpecFiles == Init /\ [][NextFiles]_vars

\* The one file both concurrent callers upload.
SameFile == {f \in UploadFiles : f.size = 1}

\* Any interleaving of two concurrent requests of uploadFile and deleteFile.
NextFilesConcurrent == \E p \in Procs : FileStep(p, SameFile)

SpecFilesConcurrent == Init /\ [][NextFilesConcurrent]_vars

\* The state the library is used from: the profile the store starts with and
\* the profile of "a" with the account and the session of its sign-up, "a"
\* signed in or signed out again, and the five uploaded files.
InitLibrary ==
    /\ users = InitialStore \o <<Doc(2, <<"N">>, <<"a">>, avatarPlaceholderUrl, "I1")>>
    /\ dirAccount = [e \in NormEmails |-> IF e = <<"a">> THEN "I1" ELSE NoId]
    /\ idOwner = [id \in Ids |-> IF id = "I1" THEN <<"a">> ELSE NoEmail]
    /\ \/ /\ sessions = <<[userId |-> "I1", alive |-> TRUE]>>
          /\ cookie = 1
       \/ /\ sessions = <<[userId |-> "I1", alive |-> FALSE]>>
          /\ cookie = NoCookie
    /\ pc = [p \in Procs |-> "idle"]
    /\ loc = [p \in Procs |-> Blank]
    /\ calls = [p \in Procs |-> NoCalls]
    /\ result = [p \in Procs |-> NoResult]
    /\ bucket = LibraryBucket
    /\ files = LibraryFiles
    /\ unique = 10
    /\ floc = [p \in Procs |-> FileBlank]

\* The steps of getFiles, renameFile, updateFileUsers and getTotalSpaceUsed.
LibraryStep(p) ==
    \/ \E types \in TypeLists, searchText \in SearchTexts, sort \in SortInputs, limit \in Limits :
          GetFilesStart(p, types, searchText, sort, limit)
    \/ GetFilesCurrentUser(p)
    \/ GetFilesList(p)
    \/ \E fileId \in TargetIds, name \in NewNames, extension \in NewExtensions :
          RenameFile(p, fileId, name, extension)
    \/ \E fileId \in TargetIds, emails \in EmailLists : UpdateFileUsers(p, fileId, emails)
    \/ GetTotalSpaceUsedClient(p)
    \/ GetTotalSpaceUsedCurrentUser(p)
    \/ GetTotalSpaceUsedList(p)
    \/ Complete(p)

\* Any sequence of calls of the four actions on the library, each run to
\* completion before the next one starts.
NextLibrary == LibraryStep("p1")

SpecLibrary == InitLibrary /\ [][NextLibrary]_vars

\* ------------------------------------------------------------------ claims

\* The request of handler p has completed a call of action op.
Done(p, op) == pc[p] = "done" /\ loc[p].op = op

\* What a successful verifySecret returns: line 231.
VerifySuccess(p) ==
    Return([sessionId |-> loc[p].secret, success |-> TRUE, accountId |-> loc[p].actual])

\* The profiles stored for an email, emails compared trimmed and lower-cased.
ProfilesFor(email) ==
    {i \in 1..Len(users) : NormalizeEmail(users[i].email) = NormalizeEmail(email)}

\* C1: a verifySecret call whose passcode the directory rejects (wrong or
\* expired code, or no challenge for the identifier) fails with the
\* invalid-or-expired-OTP error, leaves the Profile Store exactly as it was and
\* does not write the session cookie.
C1_RejectedPasscodeFails ==
    [][\A p \in Procs :
        (pc[p] = "idle" /\ loc'[p].op = "verifySecret" /\ loc'[p].rejected)
            => /\ pc'[p] = "done"
               /\ result'[p] = Throw(NewError(MsgInvalidOtp))
               /\ users' = users
               /\ cookie' = cookie
               /\ sessions' = sessions
               /\ calls'[p].createDocument = 0
               /\ calls'[p].updateDocument = 0
               /\ calls'[p].cookieSet = 0]_vars

\* C1 witness: a rejected call has failed while a profile created earlier is
\* stored and an earlier session's cookie is set.
C1_Witness ==
    \E p \in Procs :
        /\ Done(p, "verifySecret")
        /\ loc[p].rejected
        /\ result[p] = Throw(NewError(MsgInvalidOtp))
        /\ Len(users) > Len(InitialStore)
        /\ cookie # NoCookie

\* C2: verifySecret called with a full name, an email E that had no profile
\* (compared trimmed and lower-cased) and a passcode the directory accepts,
\* none of its external calls failing, returns success with the identity the
\* directory confirms for the new session, has set the cookie to that session's
\* secret, and leaves exactly one profile for E, whose email is lower(trim(E))
\* and whose accountId is that identity.
C2_SignUpCreatesOneProfile ==
    \A p \in Procs :
        (/\ Done(p, "verifySecret")
         /\ Truthy(loc[p].fullName) /\ Truthy(loc[p].email)
         /\ ~loc[p].rejected /\ ~loc[p].envFault /\ ~loc[p].hadProfile)
            => /\ result[p] = VerifySuccess(p)
               /\ loc[p].actual = sessions[loc[p].secret].userId
               /\ cookie = loc[p].secret
               /\ Cardinality(ProfilesFor(loc[p].email)) = 1
               /\ \A i \in ProfilesFor(loc[p].email) :
                    /\ users[i].email = NormalizeEmail(loc[p].email)
                    /\ users[i].accountId = sessions[loc[p].secret].userId

\* C2 witness: the sign-up of " A" was verified with the identifier the
\* directory issued for it, and the profile "a" exists.
C2_Witness ==
    \E p \in Procs :
        /\ Done(p, "verifySecret")
        /\ loc[p].email = <<" ", "A">>
        /\ Truthy(loc[p].fullName)
        /\ ~loc[p].hadProfile
        /\ idOwner[loc[p].accountId] = <<"a">>
        /\ result[p] = VerifySuccess(p)
        /\ \E i \in 1..Len(users) : users[i].email = <<"a">> /\ users[i].accountId = loc[p].actual

\* C3: in every reachable state, whatever the interleaving of createAccount,
\* signInUser and verifySecret calls, the Profile Store holds at most one
\* profile per email, emails compared trimmed and lower-cased.
C3_OneProfilePerEmail ==
    \A i, j \in 1..Len(users) :
        NormalizeEmail(users[i].email) = NormalizeEmail(users[j].email) => i = j

\* C3 witness: two concurrent verifications raced for one new email; one has
\* created the profile and the other's createDocument was refused.
C3_Witness ==
    \E p, q \in Procs :
        /\ p # q
        /\ loc[p].op = "verifySecret" /\ calls[p].createDocument = 1 /\ loc[p].dbError = NoErr
        /\ loc[q].op = "verifySecret" /\ pc[q] = "vs_requery" /\ loc[q].dbError = ErrDuplicate
        /\ Cardinality(ProfilesFor(loc[q].email)) = 1

\* C4 (as claimed): when two verifySecret calls for the same new email, both
\* with full name and email and an accepted passcode, run concurrently, exactly
\* one profile is created and the call whose createDocument was refused
\* re-queries, finds the other's profile and returns success.
C4_LoserFindsWinner ==
    \A p, q \in Procs :
        (/\ p # q
         /\ loc[p].op = "verifySecret" /\ loc[q].op = "verifySecret"
         /\ Truthy(loc[p].fullName) /\ Truthy(loc[q].fullName)
         /\ Truthy(loc[p].email) /\ loc[p].email = loc[q].email
         /\ ~loc[p].hadProfile /\ ~loc[q].hadProfile
         /\ ~loc[p].envFault /\ ~loc[q].envFault
         /\ calls[p].createDocument = 1 /\ loc[p].dbError = NoErr
         /\ loc[q].dbError = ErrDuplicate /\ pc[q] = "done")
            => /\ result[q] = VerifySuccess(q)
               /\ Cardinality(ProfilesFor(loc[q].email)) = 1

\* C5 (as claimed): createAccount for an email that already has a profile
\* (the lookup itself not failing) fails with the account-already-exists error
\* and issues no createEmailToken call.
C5_ExistingEmailRefused ==
    \A p \in Procs :
        (/\ loc[p].op = "createAccount"
         /\ loc[p].hadProfile
         /\ ~(loc[p].envFault /\ calls[p].createEmailToken = 0))
            => /\ pc[p] = "done"
               /\ result[p] = Throw(NewError(MsgAccountExists))
               /\ calls[p].createEmailToken = 0

\* C6: signInUser for an email that has no profile (the lookup itself not
\* failing) returns the structured not-found result, accountId null with an
\* error message, throws nothing and issues no createEmailToken call.
C6_SignInUnknownEmail ==
    \A p \in Procs :
        (loc[p].op = "signInUser" /\ ~loc[p].hadProfile /\ ~loc[p].envFault)
            => /\ pc[p] = "done"
               /\ result[p] = Return([accountId |-> NoId, error |-> MsgUserNotFound])
               /\ calls[p].createEmailToken = 0

\* C6 witness: a sign-in for an email without profile has returned.
C6_Witness ==
    \E p \in Procs :
        /\ Done(p, "signInUser")
        /\ ~loc[p].hadProfile /\ ~loc[p].envFault
        /\ result[p].kind = "return"
        /\ result[p].value.accountId = NoId

\* C7 (as claimed): when verifySecret passed the passcode check and found a
\* profile for the supplied email whose stored accountId differs from the
\* resolved identity (an empty stored accountId included), then, the update
\* not failing, the call succeeds and the stored accountId is the resolved
\* identity.
C7_DriftHealed ==
    \A p \in Procs :
        (/\ Done(p, "verifySecret")
         /\ loc[p].existing # NullDoc
         /\ calls[p].createDocument = 0
         /\ loc[p].existing.accountId # loc[p].actual
         /\ ~loc[p].updateFailed)
            => /\ result[p] = VerifySuccess(p)
               /\ users[loc[p].existing.id].accountId = loc[p].actual

\* C8: a verifySecret call whose accountId update failed still completes by
\* writing the session cookie and returning success with the resolved
\* identity, on the found-profile path and on the race-retry path alike.
C8_UpdateFailureNotSurfaced ==
    [][\A p \in Procs :
        (loc'[p].op = "verifySecret" /\ loc'[p].updateFailed /\ pc[p] # "done" /\ pc'[p] = "done")
            => /\ result'[p] = VerifySuccess(p)
               /\ loc[p].actual = sessions[loc[p].secret].userId
               /\ cookie' = loc[p].secret]_vars

\* C8 witness: on the race-retry path (createDocument refused, profile found
\* by the re-query) the update failed and the call returned success.
C8_Witness ==
    \E p \in Procs :
        /\ Done(p, "verifySecret")
        /\ loc[p].updateFailed
        /\ calls[p].createDocument = 1
        /\ loc[p].dbError = ErrDuplicate
        /\ result[p] = VerifySuccess(p)

\* C9, the sign-in half: for a profile with a stored accountId, signInUser
\* issues the challenge with that accountId as hint and returns the identifier
\* the directory holds for the email.
SignInUsesStoredHint ==
    \A p \in Procs :
        (/\ pc[p] = "si_otp" /\ pc'[p] = "done"
         /\ loc[p].existing.accountId # NoId
         /\ ~loc'[p].envFault /\ ~loc'[p].omitted)
            => /\ loc'[p].hint = loc[p].existing.accountId
               /\ result'[p] = Return([accountId |-> dirAccount'[NormalizeEmail(loc[p].email)]])

\* C9, the verification half with the email passed: the profile found with a
\* stale accountId is rewritten to the resolved identity and the session is
\* established under it.
VerifyWithEmailHealsDrift ==
    \A p \in Procs :
        (/\ Done(p, "verifySecret")
         /\ Truthy(loc[p].email)
         /\ loc[p].existing # NullDoc
         /\ calls[p].createDocument = 0
         /\ loc[p].existing.accountId \notin {NoId, loc[p].actual}
         /\ ~loc[p].updateFailed)
            => /\ result[p] = VerifySuccess(p)
               /\ users[loc[p].existing.id].accountId = loc[p].actual
               /\ sessions[loc[p].secret].userId = loc[p].actual
               /\ cookie = loc[p].secret

\* C9, the verification half without an email: the session is established
\* under the resolved identity and the Profile Store is not touched.
VerifyWithoutEmailKeepsStore ==
    \A p \in Procs :
        (Done(p, "verifySecret") /\ ~Truthy(loc[p].email) /\ result[p].kind = "return")
            => /\ result[p] = VerifySuccess(p)
               /\ sessions[loc[p].secret].userId = loc[p].actual
               /\ cookie = loc[p].secret
               /\ calls[p].listDocuments = 0
               /\ calls[p].updateDocument = 0

C10_SignOutAlwaysRedirects ==
    \A p \in Procs : Done(p, "signOutUser") => result[p] = Redirect("/sign-in")

\* C11 (as claimed): once signOutUser has called deleteSession, the session
\* cookie is cleared when the call ends, also when deleteSession threw.
C11_SignOutClearsCookie ==
    \A p \in Procs :
        (Done(p, "signOutUser") /\ calls[p].deleteSession = 1) => cookie = NoCookie

\* C12: the accountId a successful verifySecret returns, and the accountId of
\* every profile a step creates or rewrites, is the identity the directory
\* reports for the session that verification created, whatever identifier the
\* caller passed in.
C12_ResolvedIdentityIsUsed ==
    [][/\ \A p \in Procs :
            (/\ loc'[p].op = "verifySecret" /\ pc[p] # "done" /\ pc'[p] = "done"
             /\ result'[p].kind = "return")
                => /\ result'[p].value.success
                   /\ result'[p].value.accountId = sessions'[loc'[p].secret].userId
       /\ \A i \in 1..Len(users') :
            (i > Len(users) \/ users'[i].accountId # users[i].accountId)
                => \E p \in Procs :
                    /\ pc'[p] # pc[p]
                    /\ loc[p].op = "verifySecret"
                    /\ users'[i].accountId = sessions[loc[p].secret].userId]_vars

\* C12 witness: the caller passed an identifier the directory has replaced;
\* the verification created a profile under the resolved identity and returned
\* that identity.
C12_Witness ==
    \E p \in Procs :
        /\ Done(p, "verifySecret")
        /\ result[p].kind = "return"
        /\ loc[p].accountId # sessions[loc[p].secret].userId
        /\ calls[p].createDocument = 1
        /\ loc[p].failed = NoCall
        /\ result[p].value.accountId = sessions[loc[p].secret].userId
        /\ \E i \in 1..Len(users) :
            /\ users[i].email = NormalizeEmail(loc[p].email)
            /\ users[i].accountId = sessions[loc[p].secret].userId

\* C13: no step of createAccount, succeeding or failing, changes the Profile
\* Store or the session cookie, and the call issues no createDocument,
\* updateDocument or cookie write.
C13_CreateAccountLeavesStore ==
    [][\A p \in Procs :
        (loc'[p].op = "createAccount" /\ pc'[p] # pc[p])
            => /\ users' = users
               /\ cookie' = cookie
               /\ calls'[p].createDocument = 0
               /\ calls'[p].updateDocument = 0
               /\ calls'[p].cookieSet = 0
               /\ calls'[p].cookieDelete = 0]_vars

\* C13 witness: createAccount has issued a challenge and returned, with a
\* profile created earlier in the store and a session cookie set.
C13_Witness ==
    \E p \in Procs :
        /\ Done(p, "createAccount")
        /\ result[p].kind = "return"
        /\ calls[p].createEmailToken = 1
        /\ Len(users) > Len(InitialStore)
        /\ cookie # NoCookie

\* C14: no step of any of the five actions removes a profile or changes the
\* id, fullName, email or avatar of a stored profile; only its accountId may
\* change.
C14_OnlyAccountIdChanges ==
    [][/\ Len(users') >= Len(users)
       /\ \A i \in 1..Len(users) :
            /\ users'[i].id = users[i].id
            /\ users'[i].fullName = users[i].fullName
            /\ users'[i].email = users[i].email
            /\ users'[i].avatar = users[i].avatar]_vars

\* C14 witness: a verification has rewritten the accountId of the profile it
\* found, whose other fields are as they were.
C14_Witness ==
    \E p \in Procs :
        /\ Done(p, "verifySecret")
        /\ calls[p].updateDocument = 1
        /\ ~loc[p].updateFailed
        /\ users[loc[p].existing.id].accountId # loc[p].existing.accountId
        /\ users[loc[p].existing.id].email = loc[p].existing.email
        /\ users[loc[p].existing.id].fullName = loc[p].existing.fullName

\* C15: when createEmailToken answers, createAccount and signInUser return as
\* accountId the identifier of the directory's response, also when it differs
\* from the identifier passed to the directory; when the response carries no
\* identifier they return the identifier passed (the stored hint or the
\* generated one).
C15_DirectoryIdentifierReturned ==
    [][\A p \in Procs :
        (pc[p] \in {"ca_otp", "si_otp"} /\ pc'[p] = "done" /\ loc'[p].failed = NoCall)
            => /\ result'[p].kind = "return"
               /\ result'[p].value.accountId =
                    (IF loc'[p].omitted THEN loc'[p].hint
                     ELSE dirAccount'[NormalizeEmail(loc[p].email)])
               /\ result'[p].value.accountId # NoId]_vars

\* C15 witness: signInUser passed the stored accountId as hint and returned
\* the different identifier the directory answered with.
C15_Witness ==
    \E p \in Procs :
        /\ Done(p, "signInUser")
        /\ loc[p].failed = NoCall
        /\ ~loc[p].omitted
        /\ loc[p].hint = loc[p].existing.accountId
        /\ result[p].kind = "return"
        /\ result[p].value.accountId \notin {NoId, loc[p].hint}

\* C16: when createEmailToken fails inside createAccount, createAccount throws
\* an error whose message is the directory's message when it has one and the
\* generic send-failure message otherwise.
C16_ChallengeFailurePropagates ==
    [][\A p \in Procs :
        (pc[p] = "ca_otp" /\ loc'[p].failed = "createEmailToken")
            => result'[p] =
                Throw(NewError(IF loc'[p].otpError.message # <<>>
                               THEN loc'[p].otpError.message
                               ELSE MsgSendOtpDefault))]_vars

\* C16 witness: createEmailToken failed without a message and createAccount
\* threw the generic send-failure message.
C16_Witness ==
    \E p \in Procs :
        /\ Done(p, "createAccount")
        /\ loc[p].failed = "createEmailToken"
        /\ loc[p].otpError.message = <<>>
        /\ result[p] = Throw(NewError(MsgSendOtpDefault))

\* C17 (as claimed): when createDocument failed and the re-query ran, the
\* call throws the profile-persistence error exactly when the re-query found
\* no profile, and then, whatever the store's error was, the caller sees the
\* profile-persistence error and no cookie was written.
C17_PersistenceErrorSurfaced ==
    \A p \in Procs :
        (/\ Done(p, "verifySecret")
         /\ calls[p].createDocument = 1
         /\ loc[p].dbError # NoErr
         /\ loc[p].failed # "listDocuments")
            => /\ (loc[p].existing = NullDoc) <=>
                    (result[p] = Throw(NewError(
                        MsgSaveUserPrefix
                        \o (IF loc[p].dbError.message # <<>>
                            THEN loc[p].dbError.message ELSE MsgUnknownDb)
                        \o MsgSaveUserSuffix)))
               /\ loc[p].existing = NullDoc => calls[p].cookieSet = 0

\* C18: getCurrentUser always returns: absent when the who-am-I call (or the
\* session client) fails or yields no identity, absent when the profile query
\* fails or no profile has the session's identity as accountId, and otherwise
\* the first profile whose accountId is that identity.
C18_GetCurrentUserNeverThrows ==
    \A p \in Procs :
        Done(p, "getCurrentUser")
            => /\ result[p].kind = "return"
               /\ LET identity == IF loc[p].failed = "get" THEN NoId
                                  ELSE sessions[loc[p].secret].userId
                      matches == {i \in 1..Len(users) : users[i].accountId = identity}
                  IN IF loc[p].failed # NoCall \/ identity = NoId \/ matches = {}
                     THEN result[p].value = NullDoc
                     ELSE \E i \in matches :
                            /\ \A j \in matches : i <= j
                            /\ result[p].value = users[i]

\* C18 witness: getCurrentUser returned the profile whose accountId is the
\* identity of the session named by the cookie.
C18_Witness ==
    \E p \in Procs :
        /\ Done(p, "getCurrentUser")
        /\ loc[p].failed = NoCall
        /\ result[p].value # NullDoc
        /\ result[p].value.accountId = sessions[cookie].userId

\* C19 (as claimed): a completed call in which a directory or store call
\* failed has thrown, unless the call that failed last is the accountId
\* update of verifySecret (which then returns) or the session deletion of
\* signOutUser (which then redirects).
C19_OnlyTwoFailuresSwallowed ==
    \A p \in Procs :
        (pc[p] = "done" /\ loc[p].failed # NoCall)
            => IF loc[p].failed = "updateDocument" THEN result[p].kind = "return"
               ELSE IF loc[p].failed = "deleteSession" THEN result[p].kind = "redirect"
               ELSE result[p].kind = "throw"

\* C19 (amended): a completed call in which a directory or store call failed
\* has thrown, with these exceptions: getCurrentUser returns absent whatever
\* failed; verifySecret returns when the failed call is the accountId update,
\* or is createDocument and the re-query found a profile; signOutUser
\* redirects when the failed call is the session deletion.
C19_FailuresSurfaceExceptNamed ==
    \A p \in Procs :
        (pc[p] = "done" /\ loc[p].failed # NoCall)
            => IF loc[p].op = "getCurrentUser" THEN result[p] = Return(NullDoc)
               ELSE IF loc[p].failed = "updateDocument" THEN result[p].kind = "return"
               ELSE IF loc[p].failed = "deleteSession" THEN result[p].kind = "redirect"
               ELSE IF loc[p].failed = "createDocument" /\ loc[p].existing # NullDoc
                    THEN result[p].kind = "return"
               ELSE result[p].kind = "throw"

\* C19 witness: the profile query of getCurrentUser failed under a live
\* session and the call returned absent.
C19_Witness ==
    \E p \in Procs :
        /\ Done(p, "getCurrentUser")
        /\ loc[p].failed = "listDocuments"
        /\ SessionAlive(cookie)
        /\ result[p] = Return(NullDoc)

\* C20: the cookie holds one session secret or none. A verification records
\* as its session the one its createSession call appended; every step that
\* completes a successful verification leaves the cookie equal to that
\* session's secret, whatever it held before; and the cookie changes in no
\* other way except that signOutUser clears it.
C20_CookieIsLatestVerification ==
    [][/\ cookie' \in {NoCookie} \cup (1..Len(sessions'))
       /\ \A p \in Procs :
            /\ (pc[p] = "idle" /\ loc'[p].op = "verifySecret" /\ sessions' # sessions)
                => /\ loc'[p].secret = Len(sessions')
                   /\ sessions' = Append(sessions, sessions'[Len(sessions')])
            /\ (/\ loc'[p].op = "verifySecret" /\ pc[p] # "done" /\ pc'[p] = "done"
                /\ result'[p].kind = "return")
                => cookie' = loc[p].secret
       /\ cookie' # cookie
            => \E p \in Procs :
                /\ pc[p] # "done" /\ pc'[p] = "done"
                /\ \/ loc[p].op = "signOutUser" /\ cookie' = NoCookie
                   \/ /\ loc[p].op = "verifySecret"
                      /\ result'[p].kind = "return"
                      /\ cookie' = loc[p].secret]_vars

\* C20 witness: a second successful verification has replaced the cookie of
\* the first session by the secret of the session it created.
C20_Witness ==
    \E p \in Procs :
        /\ Done(p, "verifySecret")
        /\ result[p].kind = "return"
        /\ loc[p].secret = 2
        /\ cookie = 2
        /\ sessions[1].alive

\* The external calls one request has issued so far, all operations together.
TotalCalls(p) ==
    calls[p].createEmailToken + calls[p].createSession + calls[p].get
    + calls[p].listDocuments + calls[p].createDocument + calls[p].updateDocument
    + calls[p].deleteSession + calls[p].cookieSet + calls[p].cookieDelete

\* C21: in a verifySecret call, who-am-I runs only after createSession
\* succeeded, the profile lookup only after who-am-I succeeded, createDocument
\* and updateDocument only after the lookup succeeded, and the cookie is
\* written last: a failure of createSession, who-am-I or the first lookup ends
\* the call with no further external call, no profile write happens once the
\* cookie is written, and a completed call has written the cookie exactly when
\* it returned success.
C21_VerifyStepsInOrder ==
    [][\A p \in Procs :
        loc'[p].op = "verifySecret"
            => /\ calls'[p].get = 1 => calls'[p].createSession = 1
               /\ calls'[p].listDocuments >= 1 => calls'[p].get = 1
               /\ calls'[p].createDocument + calls'[p].updateDocument >= 1
                    => calls'[p].listDocuments >= 1
               /\ calls'[p].cookieSet = 1 => calls'[p].get = 1
               /\ (calls'[p].cookieSet = 1 /\ Truthy(loc'[p].email))
                    => calls'[p].listDocuments >= 1
               /\ (pc[p] = "idle" /\ loc'[p].failed # NoCall)
                    => /\ pc'[p] = "done"
                       /\ result'[p].kind = "throw"
                       /\ TotalCalls(p)' =
                            (IF loc'[p].failed = "createSession" THEN 1
                             ELSE IF loc'[p].failed = "get" THEN 2 ELSE 3)
                       /\ calls'[p].createDocument = 0
                       /\ calls'[p].updateDocument = 0
                       /\ calls'[p].cookieSet = 0
                       /\ users' = users /\ cookie' = cookie
               /\ calls[p].cookieSet = 1
                    => /\ calls'[p].createDocument = calls[p].createDocument
                       /\ calls'[p].updateDocument = calls[p].updateDocument
               /\ pc'[p] = "done"
                    => (calls'[p].cookieSet = 1 <=> result'[p].kind = "return")]_vars

\* C21 witness: a call that created the profile has gone through all five
\* steps and returned.
C21_Witness ==
    \E p \in Procs :
        /\ Done(p, "verifySecret")
        /\ result[p].kind = "return"
        /\ calls[p].createSession = 1 /\ calls[p].get = 1 /\ calls[p].listDocuments = 1
        /\ calls[p].createDocument = 1 /\ calls[p].cookieSet = 1
        /\ cookie = loc[p].secret

\* C22 (as claimed): when createSession fails with an error other than the
\* directory's invalid-token error, verifySecret throws that same error.
C22_OtherSessionErrorsUnchanged ==
    \A p \in Procs :
        (/\ Done(p, "verifySecret")
         /\ loc[p].failed = "createSession"
         /\ loc[p].sessionError # ErrInvalidToken)
            => result[p] = Throw(loc[p].sessionError)

\* C23: every step that adds a profile is the createDocument of a
\* verifySecret call that was given a full name and an email and whose lookup
\* found no profile, and the new profile has fullName = trim(fullName),
\* email = lower(trim(email)), the default avatar and the resolved identity as
\* accountId; a call whose lookup found no profile and that lacked the full
\* name or the email issues no createDocument, and when no call of it failed
\* it has created the session, written the cookie and returned success.
C23_ProfileCreatedOnlyOnSignUp ==
    [][/\ Len(users') > Len(users)
            => \E p \in Procs :
                /\ pc[p] = "vs_create" /\ pc'[p] # pc[p]
                /\ Truthy(loc[p].fullName) /\ Truthy(loc[p].email)
                /\ loc[p].existing = NullDoc
                /\ Len(users') = Len(users) + 1
                /\ users'[Len(users')].fullName = trim(loc[p].fullName)
                /\ users'[Len(users')].email = toLowerCase(trim(loc[p].email))
                /\ users'[Len(users')].avatar = avatarPlaceholderUrl
                /\ users'[Len(users')].accountId = sessions[loc[p].secret].userId
       /\ \A p \in Procs :
            (/\ loc'[p].op = "verifySecret"
             /\ ~(Truthy(loc'[p].fullName) /\ Truthy(loc'[p].email)))
                => /\ calls'[p].createDocument = 0
                   /\ (pc'[p] = "done" /\ loc'[p].failed = NoCall)
                        => /\ result'[p] = VerifySuccess(p)'
                           /\ calls'[p].cookieSet = 1
                           /\ sessions'[loc'[p].secret].userId = loc'[p].actual]_vars

\* C23 witness: a verification with an email but no full name found no
\* profile, created none and returned success.
C23_Witness ==
    \E p \in Procs :
        /\ Done(p, "verifySecret")
        /\ Truthy(loc[p].email) /\ ~Truthy(loc[p].fullName)
        /\ loc[p].existing = NullDoc
        /\ ~loc[p].hadProfile
        /\ calls[p].listDocuments = 1
        /\ calls[p].createDocument = 0
        /\ result[p] = VerifySuccess(p)
        /\ cookie = loc[p].secret

\* C24: signInUser passes the profile's stored accountId to createEmailToken
\* as the identifier; only when the stored accountId is empty does it pass a
\* generated identifier, which no account uses while unused ones remain.
C24_SignInHintIsStoredId ==
    [][\A p \in Procs :
        (pc[p] = "si_otp" /\ pc'[p] # pc[p])
            => /\ calls'[p].createEmailToken = 1
               /\ IF loc[p].existing.accountId # NoId
                  THEN loc'[p].hint = loc[p].existing.accountId
                  ELSE /\ loc'[p].hint \in Ids
                       /\ (Ids \ UsedIds # {}) => loc'[p].hint \notin UsedIds]_vars

\* C24 witness: a sign-in for a profile with a stored accountId has issued
\* the challenge with that accountId.
C24_Witness ==
    \E p \in Procs :
        /\ Done(p, "signInUser")
        /\ calls[p].createEmailToken = 1
        /\ loc[p].existing.accountId # NoId
        /\ loc[p].hint = loc[p].existing.accountId

\* How many steps a verifySecret call may still take from each position.
StepsLeft(position) ==
    CASE position = "vs_create" -> 4
      [] position = "vs_requery" -> 3
      [] position = "vs_update" -> 2
      [] position = "vs_cookie" -> 1
      [] OTHER -> 0

\* C25: one verifySecret call issues at most one createSession, one who-am-I,
\* one createDocument, one updateDocument and two profile lookups, the second
\* lookup only after a failed createDocument; and every step of the call
\* brings it strictly closer to its end, so it ends after a bounded number of
\* external calls.
C25_NoRetries ==
    [][\A p \in Procs :
        loc'[p].op = "verifySecret"
            => /\ calls'[p].createSession <= 1
               /\ calls'[p].get <= 1
               /\ calls'[p].createDocument <= 1
               /\ calls'[p].updateDocument <= 1
               /\ calls'[p].listDocuments <= 2
               /\ calls'[p].listDocuments = 2
                    => (calls'[p].createDocument = 1 /\ loc'[p].dbError # NoErr)
               /\ calls'[p].cookieSet <= 1
               /\ (pc[p] # "idle" /\ pc'[p] # pc[p])
                    => StepsLeft(pc'[p]) < StepsLeft(pc[p])]_vars

\* C25 witness: a call has used the one recovery: createDocument failed and
\* the email was looked up a second time.
C25_Witness ==
    \E p \in Procs :
        /\ Done(p, "verifySecret")
        /\ calls[p].createSession = 1 /\ calls[p].get = 1
        /\ calls[p].createDocument = 1
        /\ calls[p].listDocuments = 2

\* C26: no step of a verifySecret call whose lookup found a profile that
\* already stores the resolved identity changes the Profile Store, and the
\* call issues neither createDocument nor updateDocument.
C26_NoWriteWhenInSync ==
    [][\A p \in Procs :
        (/\ loc'[p].op = "verifySecret"
         /\ pc'[p] # pc[p]
         /\ loc'[p].existing # NullDoc
         /\ calls'[p].createDocument = 0
         /\ loc'[p].existing.accountId = loc'[p].actual)
            => /\ users' = users
               /\ calls'[p].updateDocument = 0
               /\ pc'[p] \in {"vs_cookie", "done"}]_vars

\* C26 witness: a verification found the profile storing the resolved
\* identity and returned success without a write.
C26_Witness ==
    \E p \in Procs :
        /\ Done(p, "verifySecret")
        /\ loc[p].existing # NullDoc
        /\ loc[p].existing.accountId = loc[p].actual
        /\ loc[p].actual # NoId
        /\ calls[p].listDocuments = 1
        /\ calls[p].createDocument = 0 /\ calls[p].updateDocument = 0
        /\ users[loc[p].existing.id] = loc[p].existing
        /\ result[p] = VerifySuccess(p)

\* C27 (as claimed): once verifySecret, given a full name and an email, has
\* returned success with no failed update, getCurrentUser under the new
\* session returns the profile of lower(trim(email)), whose accountId is the
\* accountId verifySecret returned.
C27_SignUpThenCurrentUser ==
    \A p \in Procs :
        (/\ Done(p, "verifySecret")
         /\ result[p].kind = "return"
         /\ Truthy(loc[p].fullName) /\ Truthy(loc[p].email)
         /\ ~loc[p].updateFailed)
            => /\ cookie = loc[p].secret
               /\ CurrentUser # NullDoc
               /\ CurrentUser.email = toLowerCase(trim(loc[p].email))
               /\ CurrentUser.accountId = result[p].value.accountId

\* C28: no step of signInUser (sendEmailOTP included), returning or throwing,
\* changes the Profile Store or the session cookie, and the call issues no
\* createDocument, updateDocument, cookie write or cookie delete.
C28_SignInLeavesStore ==
    [][\A p \in Procs :
        (loc'[p].op = "signInUser" /\ pc'[p] # pc[p])
            => /\ users' = users
               /\ cookie' = cookie
               /\ calls'[p].createDocument = 0
               /\ calls'[p].updateDocument = 0
               /\ calls'[p].cookieSet = 0
               /\ calls'[p].cookieDelete = 0]_vars

\* C28 witness: a sign-in for a profile whose stored accountId the directory
\* has replaced returned the new identifier; the profile still stores the old
\* one and the cookie of an earlier session is still set.
C28_Witness ==
    \E p \in Procs :
        /\ Done(p, "signInUser")
        /\ result[p].kind = "return"
        /\ result[p].value.accountId \notin {NoId, loc[p].existing.accountId}
        /\ users[loc[p].existing.id] = loc[p].existing
        /\ cookie # NoCookie

\* A file action of handler p has completed.
FileDone(p, op) == pc[p] = "done" /\ floc[p].op = op

\* C29: after any sequence and interleaving of uploadFile and deleteFile
\* calls, failing ones included, every document of the files collection
\* refers through bucketFileId to a file stored in the bucket.
C29_DocumentsReferToBucketFiles ==
    \A d \in files : d.bucketFileId \in BucketIds

\* C30 as stated: an uploadFile whose createDocument failed fails with the
\* document-creation error, and when the compensating delete succeeded the
\* bucket and the files collection are what they were before the call.
C30_FailsWithDocumentError ==
    \A p \in Procs :
        (FileDone(p, "uploadFile") /\ floc[p].documentError # NoErr)
            => /\ result[p] = Throw(floc[p].documentError)
               /\ floc[p].compensated
                    => /\ bucket = floc[p].before.bucket
                       /\ files = floc[p].before.files

\* C30 amended: an uploadFile whose createDocument failed creates no document;
\* when the compensating delete succeeded it fails with the document-creation
\* error and the bucket and the files collection are what they were before
\* the call; when the compensating delete failed it fails with the error of
\* that delete and the bucket file it stored stays in the bucket.
C30_CompensatedUploadRestores ==
    \A p \in Procs :
        (FileDone(p, "uploadFile") /\ floc[p].documentError # NoErr)
            => /\ files = floc[p].before.files
               /\ result[p].kind = "throw"
               /\ IF floc[p].compensated
                  THEN /\ result[p].error = floc[p].documentError
                       /\ bucket = floc[p].before.bucket
                  ELSE /\ result[p].error \in {ErrStorageUnavailable, ErrFileNotFound}
                       /\ result[p].error # floc[p].documentError
                       /\ bucket = floc[p].before.bucket \cup {floc[p].bucketFile}

\* C30 witness: with one file already uploaded, a second upload stored its
\* bucket file, failed to create the document, deleted the bucket file again
\* and failed with the document-creation error.
C30_Witness ==
    \E p \in Procs :
        /\ FileDone(p, "uploadFile")
        /\ floc[p].documentError # NoErr
        /\ floc[p].compensated
        /\ floc[p].bucketFile.id \notin BucketIds
        /\ result[p] = Throw(floc[p].documentError)
        /\ floc[p].before.files # {}
        /\ bucket = floc[p].before.bucket
        /\ bucket # {}

\* The file is owned by the user's profile or shared with the user's email.
OwnedOrShared(d, user) == d.owner = user.id \/ user.email \in Range(d.users)

\* C31: getFiles fails with an error when there is no current user; otherwise
\* the queries it issues match only file documents owned by the current user
\* or shared with the current user's email, and it returns no other document.
C31_GetFilesOwnedOrShared ==
    \A p \in Procs :
        floc[p].op = "getFiles"
            => /\ (pc[p] = "done" /\ (CurrentUser = NullDoc \/ floc[p].currentUser = NullDoc))
                    => result[p].kind = "throw"
               /\ floc[p].queries # <<>>
                    => \A d \in files :
                          (\A i \in 1..Len(floc[p].queries) : Matches(d, floc[p].queries[i]))
                              => OwnedOrShared(d, CurrentUser)
               /\ (pc[p] = "done" /\ result[p].kind = "return")
                    => \A d \in Range(result[p].value.documents) :
                          d \in files /\ OwnedOrShared(d, CurrentUser)

\* C31 witness: a listing, newest first and without other filters, returned
\* a file another profile owns and shares with the current user, and left out
\* a newer file of that profile that is not shared.
C31_Witness ==
    \E p \in Procs :
        /\ FileDone(p, "getFiles")
        /\ result[p].kind = "return"
        /\ floc[p].sort = <<"$createdAt", "-", "desc">>
        /\ floc[p].types = <<>> /\ floc[p].searchText = <<>>
        /\ \E d \in Range(result[p].value.documents) : d.owner # CurrentUser.id
        /\ \E d \in files :
              /\ ~OwnedOrShared(d, CurrentUser)
              /\ d \notin Range(result[p].value.documents)
              /\ \A e \in Range(result[p].value.documents) : e.id < d.id

\* The sum of the sizes of a set of documents.
RECURSIVE TotalSize(_)
TotalSize(S) ==
    IF S = {} THEN 0
    ELSE LET d == CHOOSE e \in S : TRUE IN d.size + TotalSize(S \ {d})

\* C32: getTotalSpaceUsed fails with an error when there is no current user;
\* the summary it returns has `used` equal to the sum of the sizes of all
\* file documents the current user owns and to the sum of the five per-type
\* sizes, files merely shared with the user contributing nothing.
C32_UsedIsOwnedTotal ==
    \A p \in Procs :
        FileDone(p, "getTotalSpaceUsed")
            => /\ (CurrentUser = NullDoc \/ floc[p].currentUser = NullDoc)
                    => result[p].kind = "throw"
               /\ result[p].kind = "return"
                    => /\ result[p].value.used = TotalSize({d \in files : d.owner = CurrentUser.id})
                       /\ result[p].value.used =
                            result[p].value.image + result[p].value.document
                            + result[p].value.video + result[p].value.audio
                            + result[p].value.other

\* C33: a successful updateFileUsers sets the users list of the target
\* document to the given list and a successful renameFile sets its name to
\* name.extension; every other field of that document, every other document
\* and the bucket stay as they are, and a failed call changes nothing.
C33_UpdateChangesOneField ==
    [][\A p \in Procs :
        (pc[p] = "idle" /\ pc'[p] = "done" /\ floc'[p].op \in {"renameFile", "updateFileUsers"})
            => /\ bucket' = bucket
               /\ result'[p].kind = "throw" => files' = files
               /\ result'[p].kind = "return"
                    => /\ {d \in files : d.id # floc'[p].fileId} = {d \in files' : d.id # floc'[p].fileId}
                       /\ \E d \in files :
                            /\ d.id = floc'[p].fileId
                            /\ {e \in files' : e.id = d.id}
                                = {IF floc'[p].op = "renameFile"
                                   THEN [d EXCEPT !.name = floc'[p].name \o <<floc'[p].extension>>]
                                   ELSE [d EXCEPT !.users = floc'[p].emails]}]_vars

\* C33 witness: a file that is shared was renamed: its name is the new one
\* with the extension, its users list, type and size are what they were.
C33_Witness ==
    \E p \in Procs :
        /\ FileDone(p, "renameFile")
        /\ result[p].kind = "return"
        /\ \E d \in files :
              /\ d.id = floc[p].fileId
              /\ d.name = floc[p].name \o <<floc[p].extension>>
              /\ d.users # <<>>
              /\ d.extension # floc[p].extension
              /\ d.size > 0

\* The order clauses among the queries of a listing.
OrderClauses(queries) == Clauses(queries, {"orderAsc", "orderDesc"})

\* C34: for each of the six sort values offered to users, createQueries emits
\* exactly one ordering clause, on the field named before the dash, ascending
\* when the part after the dash is asc and descending otherwise.
C34_OneOrderClause ==
    \A p \in Procs :
        (floc[p].op = "getFiles" /\ floc[p].queries # <<>> /\ floc[p].sort \in sortTypes)
            => /\ Len(OrderClauses(floc[p].queries)) = 1
               /\ \E field \in {<<"$createdAt">>, <<"name">>, <<"size">>},
                     direction \in {<<"asc">>, <<"desc">>} :
                    /\ floc[p].sort = field \o <<"-">> \o direction
                    /\ OrderClauses(floc[p].queries)[1].attribute = field
                    /\ OrderClauses(floc[p].queries)[1].method
                         = IF direction = <<"asc">> THEN "orderAsc" ELSE "orderDesc"

\* C34 witness: a listing with a type filter, a search text and a limit,
\* sorted by name from A to Z, carries one ascending order clause on name.
C34_Witness ==
    \E p \in Procs :
        /\ floc[p].op = "getFiles"
        /\ floc[p].sort = <<"name", "-", "asc">>
        /\ Len(floc[p].queries) = 5
        /\ OrderClauses(floc[p].queries) = <<Query("orderAsc", <<"name">>, <<>>)>>

====
